---- MODULE Spec2Model ----
(***************************************************************************)
(* Model of the Percolator engine of pypercol (src/src/pypercol/           *)
(* percolator.py): the Newman-Ziff incremental union-find with wrapping    *)
(* detection.  Python lists are sequences (list index c is sequence index  *)
(* c+1); numpy arrays indexed by site are functions on 0..N-1.             *)
(* Fractional coordinates and the vectors _vec are kept exactly, as        *)
(* integers scaled by the lattice's K (coordinates are multiples of 1/K).  *)
(***************************************************************************)
EXTENDS Integers, Sequences, FiniteSets, TLC

VARIABLES lat, special, cluster, vec, next, bonds, first, size, is_wrapping,
          nclusters, nbonds, largest, npercolating, nclus_percol, npaths,
          occupied, vacant, err, lastarg, twin, nblist, run

vars == <<lat, special, cluster, vec, next, bonds, first, size, is_wrapping,
          nclusters, nbonds, largest, npercolating, nclus_percol, npaths,
          occupied, vacant, err, lastarg, twin, nblist, run>>

\* The value of twin while one engine alone is constructed on the lattice.
NoTwin == <<>>

\* The value of nblist while no NeighborList is constructed.
NoList == <<>>

\* The value of run while no method of the sampler has been called.
NoRun == <<>>

\* Number of sites of the periodic chain lattice.
ChainLen == 4

\* Largest threshold num_common given to set_special_percolation_rule.
MaxCommon == 2

\* The value of _cluster[i], _next[i], _first[c] and _largest that means
\* "vacant" / "final site" / "retired" / "unset".
NONE == -1

\* The site argument of add_percolating_site when it is omitted (None).
Omitted == -2

\* The value of lastarg after a call of reset() (lastarg records the last
\* call: NONE before any call, Omitted or the site after add_percolating_site).
ResetCall == -3

\* The values of lastarg after the queries get_cluster_of_site and
\* get_common_neighbors.
ClusterQuery == -4

CommonQuery == -5

\* Number of nested get_cluster_of_site calls after which the interpreter
\* raises "maximum recursion depth exceeded" (capped).
RecursionLimit == 3

\* The special rule that is not installed (_special = False).
NoRule == -1

-----------------------------------------------------------------------------
(* Vectors of three integers.                                              *)

Zero3 == <<0, 0, 0>>

VAdd(a, b) == <<a[1] + b[1], a[2] + b[2], a[3] + b[3]>>

VSub(a, b) == <<a[1] - b[1], a[2] - b[2], a[3] - b[3]>>

VNeg(a) == <<0 - a[1], 0 - a[2], 0 - a[3]>>

VScale(k, a) == <<k * a[1], k * a[2], k * a[3]>>

Abs(x) == IF x < 0 THEN 0 - x ELSE x

Sum3(a) == a[1] + a[2] + a[3]

-----------------------------------------------------------------------------
(* Lattices: the immutable input of the engine.  A grid lattice has        *)
(* n[d] layers along axis d; along a linked axis every site has the two    *)
(* neighbor slots dirs[1]*d and dirs[2]*d, which wrap around the cell      *)
(* with translation -1 / +1.  With two layers both slots lead to the same  *)
(* site, with one layer to the site itself.                                *)

GridSites(n) == 0 .. (n[1] * n[2] * n[3] - 1)

\* layer index of site s along axis d
GridIdx(n, s, d) ==
    IF d = 1 THEN s % n[1]
    ELSE IF d = 2 THEN (s \div n[1]) % n[2]
    ELSE s \div (n[1] * n[2])

GridStride(n, d) == IF d = 1 THEN 1 ELSE IF d = 2 THEN n[1] ELSE n[1] * n[2]

\* the neighbor slot of site s along axis d in direction dir (-1 or +1)
GridSlot(n, s, d, dir) ==
    LET i  == GridIdx(n, s, d)
        i2 == (i + dir + n[d]) % n[d]
        t  == IF i + dir < 0 THEN -1 ELSE IF i + dir >= n[d] THEN 1 ELSE 0
    IN  [j |-> s + (i2 - i) * GridStride(n, d),
         T |-> [e \in 1..3 |-> IF e = d THEN t ELSE 0]]

GridSlots(n, linked, dirs, s) ==
    LET ax(d) == IF linked[d]
                 THEN <<GridSlot(n, s, d, dirs[1]), GridSlot(n, s, d, dirs[2])>>
                 ELSE <<>>
    IN  ax(1) \o ax(2) \o ax(3)

GridLattice(n, linked, dirs) ==
    LET K == n[1] * n[2] * n[3]
    IN  [nsites    |-> K,
         K         |-> K,
         coo       |-> [s \in GridSites(n) |->
                          [d \in 1..3 |-> GridIdx(n, s, d) * (K \div n[d])]],
         nn        |-> [s \in GridSites(n) |->
                          [k \in 1..Len(GridSlots(n, linked, dirs, s)) |->
                              GridSlots(n, linked, dirs, s)[k].j]],
         T_vectors |-> [s \in GridSites(n) |->
                          [k \in 1..Len(GridSlots(n, linked, dirs, s)) |->
                              GridSlots(n, linked, dirs, s)[k].T]]]

\* The lattices the engine is run on:
\*  1: periodic chain of ChainLen sites (one slot per neighbor);
\*  2: 2x2 square (every neighbor is reached by two translations);
\*  3: 3x2 rectangle (single slots along x, double slots along y);
\*  4: two far-apart sites that each neighbor their own images along x;
\*  5: two far-apart rows of two sites (double slots along x only);
\*  6: periodic chain of three sites whose lists name the +x slot first.
Lattices ==
    << GridLattice(<<ChainLen, 1, 1>>, <<TRUE, FALSE, FALSE>>, <<-1, 1>>),
       GridLattice(<<2, 2, 1>>, <<TRUE, TRUE, FALSE>>, <<-1, 1>>),
       GridLattice(<<3, 2, 1>>, <<TRUE, TRUE, FALSE>>, <<-1, 1>>),
       GridLattice(<<1, 2, 1>>, <<TRUE, FALSE, FALSE>>, <<-1, 1>>),
       GridLattice(<<2, 2, 1>>, <<TRUE, FALSE, FALSE>>, <<-1, 1>>),
       GridLattice(<<3, 1, 1>>, <<TRUE, FALSE, FALSE>>, <<1, -1>>) >>

\* Lattices whose neighbor data is not symmetric, made from the chain:
\*  1: site 0 names site 1, but the list of site 1 has no entry for site 0;
\*  2: the last site names site 0 with translation 0, while site 0 names
\*     the last site with translation -x.
AsymLattices ==
    LET chain == GridLattice(<<ChainLen, 1, 1>>, <<TRUE, FALSE, FALSE>>, <<-1, 1>>)
    IN  << [chain EXCEPT !.nn[1] = <<2>>, !.T_vectors[1] = <<Zero3>>],
           [chain EXCEPT !.T_vectors[ChainLen - 1][2] = Zero3] >>

\* The lattice the engine was constructed with (the variable lat holds it).
L == lat

Sites == 0 .. (L.nsites - 1)

-----------------------------------------------------------------------------
(* Python list helpers.                                                    *)

\* list.index(x): the 0-based position of the first x, NONE if absent
RECURSIVE IndexFrom(_, _, _)
IndexFrom(s, x, k) ==
    IF k > Len(s) THEN NONE
    ELSE IF s[k] = x THEN k - 1
    ELSE IndexFrom(s, x, k + 1)

Index(s, x) == IndexFrom(s, x, 1)

DelFirst(s, k) == Tail(s)

\* del s[k] for the 0-based position k
DelAt(s, k) == [i \in 1..(Len(s) - 1) |-> IF i <= k THEN s[i] ELSE s[i + 1]]

\* set(s)
Range(s) == {s[i] : i \in 1..Len(s)}

\* F applied to the value of e, with e evaluated once (Python evaluates a
\* statement's result once and then reads the stored value)
Bind(e, F(_)) == CHOOSE r \in {F(x) : x \in {e}} : TRUE

-----------------------------------------------------------------------------
(* The engine state as one record, so that the handlers are functions from *)
(* state to state.                                                         *)

St == [cluster |-> cluster, vec |-> vec, next |-> next, bonds |-> bonds,
       first |-> first, size |-> size, is_wrapping |-> is_wrapping,
       nclusters |-> nclusters, nbonds |-> nbonds, largest |-> largest,
       npercolating |-> npercolating, nclus_percol |-> nclus_percol,
       npaths |-> npaths, occupied |-> occupied, vacant |-> vacant,
       err |-> err]

\* __init__: _bonds[i] has one entry per DISTINCT neighbor id of site i
NumDistinct(s) == Cardinality(Range(L.nn[s]))

\* __init__: _nbonds_tot, halved with Python 2 integer division
NbondsTot ==
    LET RECURSIVE Tot(_)
        Tot(i) == IF i >= L.nsites THEN 0 ELSE NumDistinct(i) + Tot(i + 1)
    IN  Tot(0) \div 2

\* reset(): the state of initialization
ResetLargestZero ==
    [cluster      |-> [s \in Sites |-> NONE],
     vec          |-> [s \in Sites |-> Zero3],
     next         |-> [s \in Sites |-> NONE],
     bonds        |-> [s \in Sites |-> [k \in 1..NumDistinct(s) |-> FALSE]],
     first        |-> <<>>,
     size         |-> <<>>,
     is_wrapping  |-> <<>>,
     nclusters    |-> 0,
     nbonds       |-> 0,
     largest      |-> 0,
     npercolating |-> 0,
     nclus_percol |-> 0,
     npaths       |-> 0,
     occupied     |-> <<>>,
     vacant       |-> [i \in 1..L.nsites |-> i - 1],
     err          |-> "ok"]

ResetState ==
    [cluster      |-> [s \in Sites |-> NONE],
     vec          |-> [s \in Sites |-> Zero3],
     next         |-> [s \in Sites |-> NONE],
     bonds        |-> [s \in Sites |-> [k \in 1..NumDistinct(s) |-> FALSE]],
     first        |-> <<>>,
     size         |-> <<>>,
     is_wrapping  |-> <<>>,
     nclusters    |-> 0,
     nbonds       |-> 0,
     largest      |-> NONE,
     npercolating |-> 0,
     nclus_percol |-> 0,
     npaths       |-> 0,
     occupied     |-> <<>>,
     vacant       |-> [i \in 1..L.nsites |-> i - 1],
     err          |-> "ok"]

\* _check_special / new_special: the default always holds; the installed
\* rule loops over the common neighbors and holds as soon as `special' of
\* them are counted occupied (so never when there is no common neighbor).
CheckSpecial(st, site1, site2) ==
    IF special = NoRule THEN TRUE
    ELSE LET common == Range(L.nn[site1]) \cap Range(L.nn[site2])
         IN  /\ common # {}
             /\ Cardinality({n \in common : st.cluster[n] >= 0}) >= special

\* _merge_clusters, "remember bonds": the position of site2 in the neighbor
\* list of site1 indexes _bonds[site1], which has NumDistinct(site1) entries.
RememberBonds(st, site1, site2) ==
    LET nb1 == Index(L.nn[site1], site2)
        nb2 == Index(L.nn[site2], site1)
    IN  IF nb1 = NONE THEN [st EXCEPT !.err = "ValueError"]
        ELSE IF nb1 >= Len(st.bonds[site1]) THEN [st EXCEPT !.err = "IndexError"]
        ELSE IF st.bonds[site1][nb1 + 1] THEN st
        ELSE IF nb2 = NONE THEN [st EXCEPT !.err = "ValueError"]
        ELSE IF nb2 >= Len(st.bonds[site2])
             THEN [st EXCEPT !.bonds[site1][nb1 + 1] = TRUE, !.err = "IndexError"]
        ELSE [st EXCEPT !.bonds = [[st.bonds EXCEPT ![site1][nb1 + 1] = TRUE]
                                       EXCEPT ![site2][nb2 + 1] = TRUE],
                        !.nbonds = st.nbonds + 1]

\* v_12 = (coo[site2] + T2) - coo[site1], scaled by K
V12(site1, site2, T2) ==
    VSub(VAdd(L.coo[site2], VScale(L.K, T2)), L.coo[site1])

\* vec = _vec[site1] - v_12 - _vec[site2]
DeltaFlipped(vec1, v_12, vec2) == VSub(VAdd(vec1, v_12), vec2)

Delta(vec1, v_12, vec2) == VSub(VSub(vec1, v_12), vec2)

\* abs(x) > 0.5 for the scaled component x
WrapsPositive(x) == 2 * x > L.K

Wraps(x) == 2 * Abs(x) > L.K

\* the three "if abs(vec[d]) > 0.5" of the same-cluster case
WrapHitsAll(v) == [d \in 1..3 |-> IF v # Zero3 THEN 1 ELSE 0]

WrapHits(v) == [d \in 1..3 |-> IF Wraps(v[d]) THEN 1 ELSE 0]

\* _npaths after the same-cluster case
NpathsKeep(np, hits) == np

NpathsAfter(np, hits) == np + Sum3(hits)

\* _merge_clusters, cluster1 == cluster2: a periodic image of a site of the
\* cluster was found
MergeSame(st, c, v) ==
    LET wrapping1 == Sum3(st.is_wrapping[c + 1])
        hits      == WrapHits(v)
        w         == VAdd(st.is_wrapping[c + 1], hits)
        nowwraps  == (wrapping1 = 0) /\ (Sum3(w) > 0)
    IN  [st EXCEPT !.is_wrapping[c + 1] = w,
                   !.npaths = NpathsAfter(st.npaths, hits),
                   !.npercolating = IF nowwraps THEN st.npercolating + st.size[c + 1]
                                    ELSE st.npercolating,
                   !.nclus_percol = IF nowwraps THEN st.nclus_percol + 1
                                    ELSE st.nclus_percol]

\* the walk "i = first; while next[i] >= 0: i = next[i]": the sites visited.
\* A well-formed chain ends within nsites steps; `fuel' only cuts a chain
\* that would never end.
RECURSIVE Walk(_, _, _)
Walk(nxt, i, fuel) ==
    IF nxt[i] >= 0 /\ fuel > 0 THEN <<i>> \o Walk(nxt, nxt[i], fuel - 1)
    ELSE <<i>>

\* "keep track of the number of sites in wrapping clusters"
PercolatingForget(np, w1, w2, size1, size2) == np

PercolatingAfterMerge(np, w1, w2, size1, size2) ==
    IF (w1 > 0) /\ (w2 = 0) THEN np + size2
    ELSE IF (w1 = 0) /\ (w2 > 0) THEN np + size1
    ELSE np

ClusPercolAfterMerge(ncp, w1, w2) ==
    IF (w1 > 0) /\ (w2 > 0) THEN ncp - 1 ELSE ncp

\* "insert second cluster right after the head node in cluster 1":
\* _next[i] = _next[j]; _next[j] = _first[cluster2]
SpliceLoseTail(nxt, i, j, f2) == [nxt EXCEPT ![j] = f2]

Splice(nxt, i, j, f2) == [[nxt EXCEPT ![i] = nxt[j]] EXCEPT ![j] = f2]

\* _size[cluster1] += _size[cluster2]
SizeKeep(s1, s2) == s1

SizeAfterMerge(s1, s2) == s1 + s2

\* "if _size[cluster1] > _size[_largest]: _largest = cluster1", evaluated
\* with the sizes sz after the addition
LargestNever(lg, sz, c1) == lg

LargestAfterMerge(lg, sz, c1) == IF sz[c1 + 1] > sz[lg + 1] THEN c1 ELSE lg

\* "Only delete the cluster, if it is the last in the list": the tables
\* first, size, is_wrapping after retiring cluster2
Retire(st, c2) ==
    IF Len(st.first) = c2 + 1
    THEN [st EXCEPT !.first = DelAt(st.first, c2),
                    !.size = DelAt(st.size, c2),
                    !.is_wrapping = DelAt(st.is_wrapping, c2)]
    ELSE [st EXCEPT !.first[c2 + 1] = NONE,
                    !.size[c2 + 1] = 0,
                    !.is_wrapping[c2 + 1] = Zero3]

\* _merge_clusters, cluster1 # cluster2: add the sites of cluster2 to cluster1
MergeDifferent(st, c1, c2, v) ==
    LET Drop(m) == Retire(m, c2)
        w1      == Sum3(st.is_wrapping[c1 + 1])
        w2      == Sum3(st.is_wrapping[c2 + 1])
        members == Walk(st.next, st.first[c2 + 1], L.nsites)
        mset    == Range(members)
        i       == members[Len(members)]
        j       == st.first[c1 + 1]
        sz      == [st.size EXCEPT ![c1 + 1] =
                        SizeAfterMerge(st.size[c1 + 1], st.size[c2 + 1])]
        merged  ==
          [st EXCEPT
             !.npercolating = PercolatingAfterMerge(st.npercolating, w1, w2,
                                  st.size[c1 + 1], st.size[c2 + 1]),
             !.nclus_percol = ClusPercolAfterMerge(st.nclus_percol, w1, w2),
             !.vec = [s \in Sites |-> IF s \in mset THEN VAdd(st.vec[s], v)
                                      ELSE st.vec[s]],
             !.cluster = [s \in Sites |-> IF s \in mset THEN c1 ELSE st.cluster[s]],
             !.next = Splice(st.next, i, j, st.first[c2 + 1]),
             !.size = sz,
             !.largest = LargestAfterMerge(st.largest, sz, c1),
             !.is_wrapping[c1 + 1] = VAdd(st.is_wrapping[c1 + 1],
                                          st.is_wrapping[c2 + 1]),
             !.nclusters = st.nclusters - 1]
    IN  Bind(merged, Drop)

\* _merge_clusters(cluster1, site1, cluster2, site2, T2)
MergeClusters(st, cluster1, site1, cluster2, site2, T2) ==
    LET Merge(b) ==
          LET v == Delta(b.vec[site1], V12(site1, site2, T2), b.vec[site2])
          IN  IF b.err # "ok" THEN b
              ELSE IF cluster1 = cluster2 THEN MergeSame(b, cluster1, v)
              ELSE MergeDifferent(b, cluster1, cluster2, v)
    IN  IF ~CheckSpecial(st, site1, site2) THEN st
        ELSE Bind(RememberBonds(st, site1, site2), Merge)

\* add_percolating_site, "loop over the neighbors of the neighbor" (only
\* with a special rule): slots j.. of nb
RECURSIVE NextNearestLoop(_, _, _)
NextNearestLoop(st0, nb, j) ==
    LET Pass(st) ==
          IF j > Len(L.nn[nb]) \/ st.err # "ok" THEN st
          ELSE LET nb2 == L.nn[nb][j]
                   cl2 == st.cluster[nb2]
               IN  IF cl2 >= 0
                   THEN NextNearestLoop(
                            MergeClusters(st, cl2, nb2, st.cluster[nb], nb,
                                          VNeg(L.T_vectors[nb][j])), nb, j + 1)
                   ELSE NextNearestLoop(st, nb, j + 1)
    IN  Bind(st0, Pass)

\* add_percolating_site, the loop over the neighbor slots i.. of site; an
\* exception raised by a merge ends the call
RECURSIVE NeighborLoop(_, _, _)
NeighborLoop(st0, site, i) ==
    LET Pass(st) ==
          IF i > Len(L.nn[site]) \/ st.err # "ok" THEN st
          ELSE LET nb == L.nn[site][i]
                   cl == st.cluster[nb]
                   m  == MergeClusters(st, cl, nb, st.cluster[site], site,
                                       VNeg(L.T_vectors[site][i]))
               IN  IF cl >= 0
                   THEN IF special = NoRule THEN NeighborLoop(m, site, i + 1)
                        ELSE NeighborLoop(NextNearestLoop(m, nb, 1), site, i + 1)
                   ELSE NeighborLoop(st, site, i + 1)
    IN  Bind(st0, Pass)

\* "if not site": None and the site index 0 both select at random
NotSite(arg) == arg = Omitted \/ arg = 0

\* add_percolating_site, "for the moment, add a new cluster"
NewCluster(st, site, sel) ==
    LET c == Len(st.first)
    IN  [st EXCEPT !.vacant = DelAt(st.vacant, sel),
                   !.occupied = Append(st.occupied, site),
                   !.first = Append(st.first, site),
                   !.size = Append(st.size, 1),
                   !.is_wrapping = Append(st.is_wrapping, Zero3),
                   !.cluster[site] = c,
                   !.nclusters = st.nclusters + 1,
                   !.vec[site] = Zero3,
                   !.largest = IF st.largest < 0 THEN c ELSE st.largest]

AllOccupiedForgetsLargest(st) == [st EXCEPT !.err = "warning", !.largest = NONE]

\* "Warning: all sites are already occupied" on stderr, and return
AllOccupied(st) == [st EXCEPT !.err = "warning"]

\* add_percolating_site(site=arg); rnd is the value random_integers draws
AddSite(st0, arg, rnd) ==
    LET st == [st0 EXCEPT !.err = "ok"]
    IN  IF Len(st.vacant) <= 0 THEN AllOccupied(st)
        ELSE LET sel  == IF NotSite(arg) THEN rnd ELSE Index(st.vacant, arg)
                 site == IF NotSite(arg) THEN st.vacant[rnd + 1] ELSE arg
             IN  IF sel = NONE THEN [st EXCEPT !.err = "ValueError"]
                 ELSE NeighborLoop(NewCluster(st, site, sel), site, 1)

\* the property num_percolating: len(self._percolating), an attribute that
\* no method of the class ever assigns; the read raises AttributeError
NumPercolating(st) == [err |-> "AttributeError", value |-> NONE]

\* get_cluster_of_site(site, vec, visited) as the nested call number
\* `level': the engine afterwards (st), the returned sites and spanning
\* counts, and the exception that ended the call, if any.  The loop over
\* the neighbor ids of site runs from slot k on; T_vectors[site] is indexed
\* with the neighbor id nb, and newsites only ever receives what the nested
\* calls return.
RECURSIVE GetClusterOfSite(_, _, _, _, _)
RECURSIVE GetClusterLoop(_, _, _, _, _, _)
GetClusterLoop(r, site, v, visited, k, level) ==
    IF k > Len(L.nn[site]) \/ r.err # "ok" THEN r
    ELSE LET nb == L.nn[site][k]
         IN  IF ~(r.st.cluster[nb] >= 0 /\ CheckSpecial(r.st, site, nb))
             THEN GetClusterLoop(r, site, v, visited, k + 1, level)
             ELSE IF nb >= Len(L.T_vectors[site])
             THEN [r EXCEPT !.err = "IndexError"]
             ELSE LET T      == L.T_vectors[site][nb + 1]
                      v_12   == VSub(VAdd(L.coo[nb], VScale(L.K, T)), L.coo[site])
                      vec_nb == VAdd(v, v_12)
                      diff   == VSub(r.st.vec[nb], vec_nb)
                      wrote  == [r.st EXCEPT !.vec[nb] = vec_nb]
                      sub    == GetClusterOfSite(wrote, nb, vec_nb,
                                                 visited \o r.newsites, level + 1)
                  IN  IF nb \notin Range(visited \o r.newsites)
                      THEN GetClusterLoop(
                             [st        |-> sub.st,
                              newsites  |-> r.newsites \o sub.newsites,
                              nspanning |-> VAdd(r.nspanning, sub.nspanning),
                              err       |-> sub.err],
                             site, v, visited, k + 1, level)
                      ELSE GetClusterLoop(
                             [r EXCEPT !.nspanning = VAdd(r.nspanning, WrapHits(diff))],
                             site, v, visited, k + 1, level)

GetClusterOfSite(st, site, v, visited, level) ==
    IF level > RecursionLimit
    THEN [st |-> st, newsites |-> <<>>, nspanning |-> Zero3, err |-> "RuntimeError"]
    ELSE IF st.cluster[site] < 0
    THEN [st |-> st, newsites |-> visited, nspanning |-> Zero3, err |-> "ok"]
    ELSE GetClusterLoop([st |-> st, newsites |-> <<>>, nspanning |-> Zero3,
                         err |-> "ok"], site, v, visited, 1, level)

\* get_common_neighbors(site1, site2)
GetCommonNeighbors(site1, site2) == Range(L.nn[site1]) \cap Range(L.nn[site2])

-----------------------------------------------------------------------------
(* The neighbor list builder (src/src/pypercol/pynblist.py).  The cell is  *)
(* orthorhombic: avec[d] is the length of lattice vector d.  A coordinate  *)
(* is a 3-tuple of integers, the fractional coordinate times K; Cartesian  *)
(* lengths are kept times K as well, so that a coordinate c lies at        *)
(* c[d] * avec[d] and a translation T at T[d] * K * avec[d].  Distances    *)
(* are kept as their squares; dr and r are lengths times K.                *)

\* FINAL: the end of a box chain, and the first-entry of an empty box
FINAL == -1

\* natoms_per_box, the default of the constructor
NatomsPerBox == 10

\* interaction_range=None ("if not interaction_range" also takes 0)
NoRange == 0

\* nboxes=None ("if nboxes" also takes the empty tuple)
NoBoxes == <<>>

\* star_setup: "the 26 immediate neighbors of the home box", ix outermost
ImmediateStar ==
    [k \in 1..26 |->
        LET n == IF k <= 13 THEN k - 1 ELSE k
        IN  <<(n \div 9) - 1, ((n \div 3) % 3) - 1, (n % 3) - 1>>]

\* star_setup: "boxes that share the common corner (0,0,0)"
CommonCorner ==
    << <<0, 0, 0>>, <<-1, 0, 0>>, <<0, -1, 0>>, <<0, 0, -1>>,
       <<-1, -1, 0>>, <<-1, 0, -1>>, <<0, -1, -1>>, <<-1, -1, -1>> >>

\* "if not (T_new in star): star.append(T_new)"
AppendNew(star, T) == IF T \in Range(star) THEN star ELSE Append(star, T)

\* star_setup(lattice_vectors, interaction_range) for the lattice vectors
\* of lengths num[d] / den[d]
StarSetup(num, den, r) ==
    LET P == den[1] * den[2] * den[3]
        W(d) == num[d] * (P \div den[d])
        Sq(x) == x * x
        \* d2 - EPS < r2
        InRange(v) ==
            Sq(v[1] * W(1)) + Sq(v[2] * W(2)) + Sq(v[3] * W(3)) <= Sq(r * P)
        RECURSIVE Corners(_, _, _)
        Corners(star0, v, k) ==
            LET Pass(star) ==
                  IF k > Len(CommonCorner) THEN star
                  ELSE Corners(AppendNew(AppendNew(star, VAdd(v, CommonCorner[k])),
                                         VAdd(VNeg(v), CommonCorner[k])), v, k + 1)
            IN  Bind(star0, Pass)
        RECURSIVE ZLoop(_, _, _, _, _)
        ZLoop(star0, ix, iy, iz, found) ==
            LET Pass(star) ==
                  IF <<ix, iy, iz>> = Zero3 THEN ZLoop(star, ix, iy, iz + 1, found)
                  ELSE IF InRange(<<ix, iy, iz>>)
                       THEN ZLoop(Corners(star, <<ix, iy, iz>>, 1), ix, iy,
                                  iz + 1, TRUE)
                       ELSE [star |-> star, found |-> found]
            IN  Bind(star0, Pass)
        RECURSIVE YLoop(_, _, _, _)
        YLoop(star, ix, iy, found) ==
            LET Pass(z) ==
                  IF z.found THEN YLoop(z.star, ix, iy + 1, TRUE)
                  ELSE [star |-> z.star, found |-> found]
            IN  Bind(ZLoop(star, ix, iy, 0, FALSE), Pass)
        RECURSIVE XLoop(_, _)
        XLoop(star, ix) ==
            LET Pass(y) == IF y.found THEN XLoop(y.star, ix + 1) ELSE y.star
            IN  Bind(YLoop(star, ix, 0, FALSE), Pass)
    IN  IF r = NoRange THEN ImmediateStar ELSE XLoop(ImmediateStar, 0)

\* __init__: the default number of boxes along lattice vector d, which is
\* int(round(len / d)) with d = (a*b*c / N) ** (1/3): the integer n nearest
\* to the cube root of len^3 * N / (a*b*c)
DefaultBoxes(avec, ncoo, d) ==
    LET N   == IF ncoo \div NatomsPerBox > 1 THEN ncoo \div NatomsPerBox ELSE 1
        abc == avec[1] * avec[2] * avec[3]
        x3  == 8 * avec[d] * avec[d] * avec[d] * N
        Cube(x) == x * x * x
    IN  CHOOSE n \in 0..(2 * avec[d] * N) :
            Cube(2 * n - 1) * abc <= x3 /\ x3 < Cube(2 * n + 1) * abc

\* _box_ID(na, nb, nc) with the box numbers n
BoxID(n, na, nb, nc) ==
    ((na + n[1]) % n[1]) + ((nb + n[2]) % n[2]) * n[1]
        + ((nc + n[3]) % n[3]) * n[2] * n[1]

\* _box_nabc(bid)
BoxNabc(n, bid) ==
    LET rest == bid % (n[2] * n[1])
    IN  <<rest % n[1], rest \div n[1], bid \div (n[2] * n[1])>>

\* _add_T_to_bid(bid, T)
AddTToBid(n, bid, T) ==
    LET a == BoxNabc(n, bid)
        t == BoxNabc(n, T)
    IN  BoxID(n, a[1] + t[1], a[2] + t[2], a[3] + t[3])

\* _wrap_to_home_cell: every coordinate into [0, 1)
WrapToHomeCell(K, coo) == [i \in DOMAIN coo |-> [d \in 1..3 |-> coo[i][d] % K]]

\* NeighborList(lattice_vectors, frac_coordinates, interaction_range=range,
\* nboxes=nboxes_arg): __init__ with _build_neighbor_list, which wraps the
\* coordinates and chains every coordinate into its box
NeighborList(avec, K, frac_coordinates, range, nboxes_arg) ==
    LET ncoo   == Len(frac_coordinates)
        nboxes == IF nboxes_arg # NoBoxes THEN nboxes_arg
                  ELSE [d \in 1..3 |-> DefaultBoxes(avec, ncoo, d)]
        num    == [d \in 1..3 |-> avec[d] * K]
        base   == [avec |-> avec, K |-> K, ncoo |-> ncoo, range |-> range,
                   nboxes |-> nboxes,
                   coo |-> [i \in 0..(ncoo - 1) |-> frac_coordinates[i + 1]],
                   box |-> <<>>, first |-> <<>>, next |-> <<>>,
                   T_latt |-> <<>>, T_box |-> <<>>, err |-> "ok"]
    IN  IF \E d \in 1..3 : nboxes[d] = 0
        THEN [base EXCEPT !.err = "ZeroDivisionError"]
        ELSE
        LET coo  == WrapToHomeCell(K, base.coo)
            tot  == nboxes[1] * nboxes[2] * nboxes[3]
            T_box == StarSetup(num, nboxes, range)
            \* the box IDs of the star, each kept where it comes first
            bids == [k \in 1..Len(T_box) |->
                        [k |-> k, bid |-> BoxID(nboxes, T_box[k][1], T_box[k][2],
                                                T_box[k][3])]]
            IsNew(e) == \A k \in 1..(e.k - 1) : bids[k].bid # e.bid
            unique == SelectSeq(bids, IsNew)
            bidOf(i) == BoxID(nboxes, (coo[i][1] * nboxes[1]) \div K,
                                      (coo[i][2] * nboxes[2]) \div K,
                                      (coo[i][3] * nboxes[3]) \div K)
            \* _add_to_box for i, i + 1, ...
            RECURSIVE Assign(_, _, _)
            Assign(fst, nxt, i) ==
                IF i >= ncoo THEN [first |-> fst, next |-> nxt]
                ELSE Assign([fst EXCEPT ![bidOf(i)] = i],
                            [nxt EXCEPT ![i] = fst[bidOf(i)]], i + 1)
            chains == Assign([b \in 0..(tot - 1) |-> FINAL],
                             [i \in 0..(ncoo - 1) |-> 0], 0)
        IN  [base EXCEPT !.coo = coo,
                         !.box = [i \in 0..(ncoo - 1) |-> bidOf(i)],
                         !.first = chains.first,
                         !.next = chains.next,
                         !.T_latt = <<Zero3>> \o StarSetup(num, <<1, 1, 1>>, range),
                         !.T_box = [k \in 1..Len(unique) |-> unique[k].bid]]

\* self._next[i]; the numpy index -1 is the last element of the array
NextAt(nl, i) == IF i = FINAL THEN nl.next[nl.ncoo - 1] ELSE nl.next[i]

\* _box_contents(bid)
BoxContents(nl, bid) ==
    LET RECURSIVE Chain(_, _)
        Chain(ids, i) ==
            IF NextAt(nl, i) # FINAL
            THEN Chain(Append(ids, NextAt(nl, i)), NextAt(nl, i))
            ELSE ids
    IN  Chain(IF nl.first[bid] # FINAL THEN <<nl.first[bid]>> ELSE <<>>,
              nl.first[bid])

\* get_possible_neighbors(i)
GetPossibleNeighbors(nl, i) ==
    LET home == BoxContents(nl, nl.box[i])
        RECURSIVE Boxes(_, _)
        Boxes(nbl, k) ==
            IF k > Len(nl.T_box) THEN nbl
            ELSE Boxes(nbl \o BoxContents(nl, AddTToBid(nl.nboxes, nl.box[i],
                                                        nl.T_box[k])), k + 1)
    IN  Boxes(DelAt(home, Index(home, i)), 1)

\* the squared length of v_ij = (coo_i - T) . avec - coo_j . avec
Dist2(nl, i, j, T) ==
    LET x(d) == (nl.coo[i][d] - T[d] * nl.K - nl.coo[j][d]) * nl.avec[d]
    IN  x(1) * x(1) + x(2) * x(2) + x(3) * x(3)

\* the entries (j, T, distance) of coordinate j with the images of T_latt
\* that are selected by idx
Images(nl, i, j, Idx(_)) ==
    LET all == [k \in 1..Len(nl.T_latt) |->
                   [j |-> j, T |-> nl.T_latt[k],
                    d2 |-> Dist2(nl, i, j, nl.T_latt[k])]]
        Selected(e) == Idx(e.d2)
    IN  SelectSeq(all, Selected)

\* np.min(d2) over the images of T_latt
MinDist2(nl, i, j) ==
    CHOOSE m \in {Dist2(nl, i, j, nl.T_latt[k]) : k \in 1..Len(nl.T_latt)} :
        \A k \in 1..Len(nl.T_latt) : m <= Dist2(nl, i, j, nl.T_latt[k])

\* sqrt(a2) + dr < sqrt(b2), for dr >= 0, decided on the squares
SumBelow(a2, dr, b2) ==
    LET g == b2 - a2 - dr * dr
    IN  g > 0 /\ 4 * dr * dr * a2 < g * g

\* get_neighbors_and_distances(i, r): the lists nbl, Tvecs and dist as one
\* list of entries; without a range the method prints an error and
\* returns None
GetNeighborsAndDistances(nl, i, r) ==
    LET r1 == IF r # NoRange /\ r <= nl.range THEN r ELSE nl.range
        possible == GetPossibleNeighbors(nl, i)
        Within(x) == x <= r1 * r1
        RECURSIVE Scan(_, _)
        Scan(res0, k) ==
            LET Pass(res) ==
                  IF k > Len(possible) THEN res
                  ELSE Scan(res \o Images(nl, i, possible[k], Within), k + 1)
            IN  Bind(res0, Pass)
    IN  IF r1 = NoRange THEN [err |-> "no range specified", entries |-> <<>>]
        ELSE [err |-> "ok", entries |-> Scan(<<>>, 1)]

\* get_nearest_neighbors(i, dr); m2 is the square of d_min_min
GetNearestNeighbors(nl, i, dr) ==
    LET possible == GetPossibleNeighbors(nl, i)
        Sq(x) == x * x
        diag2 == Sq(nl.avec[1] * nl.K) + Sq(nl.avec[2] * nl.K)
                     + Sq(nl.avec[3] * nl.K)
        RECURSIVE Scan(_, _, _)
        Scan(res0, m2, k) ==
            LET Pass(res) ==
                  IF k > Len(possible) THEN res
                  ELSE LET j     == possible[k]
                           dmin2 == MinDist2(nl, i, j)
                           kept  == IF SumBelow(dmin2, dr, m2) THEN <<>> ELSE res
                           m2n   == IF dmin2 < m2 THEN dmin2 ELSE m2
                           Near(x) == ~SumBelow(m2n, dr, x)
                       IN  IF SumBelow(m2n, dr, dmin2) THEN Scan(kept, m2n, k + 1)
                           ELSE Scan(kept \o Images(nl, i, j, Near), m2n, k + 1)
            IN  Bind(res0, Pass)
    IN  Scan(<<>>, diag2, 1)

\* Percolator._build_neighbor_list(dr): a NeighborList with the default
\* arguments, and the nearest neighbors of every site; np.min(dist) of an
\* empty list raises ValueError
BuildNeighborList(avec, K, frac_coordinates, dr) ==
    LET nl == NeighborList(avec, K, frac_coordinates, NoRange, NoBoxes)
        sites == 0..(Len(frac_coordinates) - 1)
        Lists(of) ==
            IF \E i \in sites : of[i] = <<>>
            THEN [err |-> "ValueError", neighbors |-> <<>>, T_vectors |-> <<>>]
            ELSE [err |-> "ok",
                  neighbors |-> [i \in sites |-> [k \in 1..Len(of[i]) |-> of[i][k].j]],
                  T_vectors |-> [i \in sites |-> [k \in 1..Len(of[i]) |-> of[i][k].T]]]
    IN  IF nl.err # "ok" THEN [err |-> nl.err, neighbors |-> <<>>, T_vectors |-> <<>>]
        ELSE Bind([i \in sites |-> GetNearestNeighbors(nl, i, dr)], Lists)

-----------------------------------------------------------------------------
(* The sampler's binomial convolution (percolator.py, the end of           *)
(* calc_p_infinity and of the other calc methods).  A probability p of     *)
(* plist is the fraction a/b; binom.pmf and the sums are kept exactly, as  *)
(* numerators over b^N.                                                    *)

\* The probabilities are the multiples of 1/PGrid inside (0,1).
PGrid == 4

RECURSIVE Power(_, _)
Power(x, k) == IF k = 0 THEN 1 ELSE x * Power(x, k - 1)

\* the binomial coefficient N over n
RECURSIVE Binomial(_, _)
Binomial(N, n) ==
    IF n = 0 THEN 1 ELSE (Binomial(N, n - 1) * (N - n + 1)) \div n

BinomPmfNoCoefficient(n, N, a, b) == Power(a, n) * Power(b - a, N - n)

\* binom.pmf(n, N, p) for p = a/b, times b^N
BinomPmf(n, N, a, b) == Binomial(N, n) * Power(a, n) * Power(b - a, N - n)

\* nlist = np.arange(1, nsites+1)
Nlist(N) == 1 .. N

\* np.sum(binom.pmf(nlist, nsites, p)*Pn) for p = a/b, times b^N; Pn[n-1]
\* of the code is Pn[n] of the sequence
RECURSIVE SumPmf(_, _, _, _, _)
SumPmf(Pn, N, a, b, ns) ==
    IF ns = {} THEN 0
    ELSE LET n == CHOOSE x \in ns : TRUE
         IN  BinomPmf(n, N, a, b) * Pn[n] + SumPmf(Pn, N, a, b, ns \ {n})

\* the loop over plist: Pp[i] for every probability plist[i]/b
Convolve(Pn, N, plist, b) ==
    [i \in 1..Len(plist) |-> SumPmf(Pn, N, plist[i], b, Nlist(N))]

-----------------------------------------------------------------------------
(* The sampler's trial loops (percolator.py, calc_p_infinity and           *)
(* percolation_point).  The call is the record r: r.at is its position     *)
(* ("trial": at the head of the loop over the samples, "site": inside the  *)
(* loop over the sites, "returned", "exit", "raised"), r.i and r.n are the *)
(* loop counters.  The weights w, w1, w2 are common factors of the sums,   *)
(* so the sums are kept as integers: r.Pn[n] is Pn[n-1]*samples*n,         *)
(* r.Xn[n] is Xn[n-1]*samples*n/nsites, r.pc holds the six sums of         *)
(* percolation_point times samples*nsites (sites) and samples*nbonds_tot   *)
(* (bonds).  ProgressBar and uprint only print.                            *)

\* The value of r.result while the call has returned nothing.
NoResult == <<>>

RECURSIVE Factorial(_)
Factorial(n) == IF n <= 1 THEN 1 ELSE n * Factorial(n - 1)

\* the entry of a calc method; 1.0/float(samples) raises for samples = 0
CalcPInfinityEntry(samples, plist) ==
    LET r == [call |-> "calc_p_infinity", samples |-> samples, plist |-> plist,
              at |-> "trial", i |-> 0, n |-> 0,
              Pn |-> [n \in 1..L.nsites |-> 0],
              Xn |-> [n \in 1..L.nsites |-> 0], Pnc |-> <<>>,
              done_any |-> FALSE, done_two |-> FALSE,
              pc |-> <<0, 0, 0, 0, 0, 0>>,
              err |-> "ok", result |-> NoResult]
    IN  IF samples = 0
        THEN [r EXCEPT !.at = "raised", !.err = "ZeroDivisionError"]
        ELSE r

\* the entry of percolation_point; w1 divides by samples and nsites, w2 by
\* samples and nbonds_tot
PercolationPointEntry(samples) ==
    LET r == [call |-> "percolation_point", samples |-> samples,
              plist |-> <<>>,
              at |-> "trial", i |-> 0, n |-> 0,
              Pn |-> <<>>, Xn |-> <<>>, Pnc |-> <<>>,
              done_any |-> FALSE, done_two |-> FALSE,
              pc |-> <<0, 0, 0, 0, 0, 0>>,
              err |-> "ok", result |-> NoResult]
    IN  IF samples = 0 \/ L.nsites = 0 \/ NbondsTot = 0
        THEN [r EXCEPT !.at = "raised", !.err = "ZeroDivisionError"]
        ELSE r

\* the entry of calc_p_wrapping
CalcPWrappingEntry(samples, plist) ==
    LET r == [call |-> "calc_p_wrapping", samples |-> samples, plist |-> plist,
              at |-> "trial", i |-> 0, n |-> 0,
              Pn |-> [n \in 1..L.nsites |-> 0], Xn |-> <<>>,
              Pnc |-> [n \in 1..L.nsites |-> 0],
              done_any |-> FALSE, done_two |-> FALSE,
              pc |-> <<0, 0, 0, 0, 0, 0>>,
              err |-> "ok", result |-> NoResult]
    IN  IF samples = 0
        THEN [r EXCEPT !.at = "raised", !.err = "ZeroDivisionError"]
        ELSE r

\* the value returned by calc_p_wrapping: (Pp, Ppc), each times
\* PGrid^nsites * samples (Pp also divided by nsites)
CalcPWrappingResult(r) ==
    <<Convolve(r.Pn, L.nsites, r.plist, PGrid),
      Convolve(r.Pnc, L.nsites, r.plist, PGrid)>>

\* the value returned by calc_p_infinity: (Pp, Xp), each times
\* PGrid^nsites * samples * nsites! (Xp also divided by nsites)
CalcPInfinityResult(r) ==
    LET f == Factorial(L.nsites)
        Scaled(Qn) == [n \in 1..L.nsites |-> Qn[n] * (f \div n)]
    IN  <<Convolve(Scaled(r.Pn), L.nsites, r.plist, PGrid),
          Convolve(Scaled(r.Xn), L.nsites, r.plist, PGrid)>>

\* for i in xrange(samples): reset() and enter the loop over the sites, or
\* leave the loop and return
TrialStep(r, st) ==
    IF r.i < r.samples
    THEN [run |-> [r EXCEPT !.at = "site", !.n = 0,
                            !.done_any = FALSE, !.done_two = FALSE],
          st |-> ResetState]
    ELSE [run |-> [r EXCEPT !.at = "returned",
                            !.result = IF r.call = "calc_p_infinity"
                                       THEN CalcPInfinityResult(r)
                                       ELSE IF r.call = "calc_p_wrapping"
                                       THEN CalcPWrappingResult(r)
                                       ELSE r.pc],
          st |-> st]

\* the sum of size[cl]**2 over the cluster table without the largest
RECURSIVE SquaresOfOthers(_, _)
SquaresOfOthers(st, cl) ==
    IF cl >= Len(st.size) THEN 0
    ELSE (IF cl = st.largest THEN 0 ELSE st.size[cl + 1] * st.size[cl + 1])
             + SquaresOfOthers(st, cl + 1)

\* calc_p_infinity, one pass of the loop over the sites
CalcPInfinityStep(r, st0, rnd) ==
    LET Recorded(st) ==
          [r EXCEPT !.Pn[r.n + 1] = @ + st.size[st.largest + 1],
                    !.Xn[r.n + 1] = @ + SquaresOfOthers(st, 0)]
        Pass(st) ==
          IF st.err # "ok"
          THEN [run |-> [r EXCEPT !.at = "raised", !.err = st.err], st |-> st]
          ELSE IF r.n + 1 < L.nsites
          THEN [run |-> [Recorded(st) EXCEPT !.n = r.n + 1], st |-> st]
          ELSE [run |-> [Recorded(st) EXCEPT !.i = r.i + 1, !.at = "trial"],
                st |-> st]
    IN  Bind(AddSite(st0, Omitted, rnd), Pass)

\* np.sum(wrapping) > 0
WrappingAny(w) == Sum3(w) > 0

AddAfter(Qn, n) ==
    [k \in 1..Len(Qn) |-> IF k >= n + 2 THEN Qn[k] + 1 ELSE Qn[k]]

\* Pnc[n:] += w, in units of w (Pnc[n] of the code is Qn[n + 1])
AddFrom(Qn, n) ==
    [k \in 1..Len(Qn) |-> IF k >= n + 1 THEN Qn[k] + 1 ELSE Qn[k]]

\* calc_p_wrapping, one pass of the loop over the sites; Pn is kept in
\* units of w2 = w*nsites
CalcPWrappingStep(r, st0, rnd) ==
    LET Pass(st) ==
          IF st.err # "ok"
          THEN [run |-> [r EXCEPT !.at = "raised", !.err = st.err], st |-> st]
          ELSE IF WrappingAny(st.is_wrapping[st.largest + 1])
          THEN [run |-> [r EXCEPT !.Pnc = AddFrom(@, r.n),
                                  !.Pn[r.n + 1] = @ + 1,
                                  !.i = r.i + 1, !.at = "trial"],
                st |-> st]
          ELSE IF r.n + 1 < L.nsites
          THEN [run |-> [r EXCEPT !.n = r.n + 1], st |-> st]
          ELSE [run |-> [r EXCEPT !.i = r.i + 1, !.at = "trial"], st |-> st]
    IN  Bind(AddSite(st0, Omitted, rnd), Pass)

NotDoneIgnored(done) == TRUE

\* "and not done_any", "and not done_two"
NotDone(done) == ~done

\* np.sum(np.where(wrapping>0,1,0)) >= 2
WrappingTwo(w) == Cardinality({d \in 1..3 : w[d] > 0}) >= 2

WrappingAllButX(w) == w[2] > 0 /\ w[3] > 0

\* np.all(wrapping>0)
WrappingAll(w) == \A d \in 1..3 : w[d] > 0

\* save_cluster(largest, "POSCAR-Error") relies on pymatgen for the file:
\* it returns, and sys.exit() raises SystemExit, or the library raises
SaveClusterOutcomes == {"SystemExit", "ImportError"}

\* percolation_point, one pass of the loop over the sites
PercolationPointStep(r, st0, rnd, out) ==
    LET Counted(st, any, two, all) ==
          [r EXCEPT
             !.pc = [k \in 1..6 |->
                       r.pc[k]
                         + (IF (k = 1 /\ any) \/ (k = 2 /\ two) \/ (k = 3 /\ all)
                            THEN r.n + 1
                            ELSE IF (k = 4 /\ any) \/ (k = 5 /\ two)
                                       \/ (k = 6 /\ all)
                            THEN st.nbonds
                            ELSE 0)],
             !.done_any = r.done_any \/ any,
             !.done_two = r.done_two \/ two]
        Branch(st, r1, all) ==
          IF all
          THEN [run |-> [r1 EXCEPT !.i = r.i + 1, !.at = "trial"], st |-> st]
          ELSE IF r.n = L.nsites - 1
          THEN [run |-> [r1 EXCEPT !.at = "exit", !.err = out], st |-> st]
          ELSE [run |-> [r1 EXCEPT !.n = r.n + 1], st |-> st]
        Checked(st, w) ==
          Branch(st,
                 Counted(st, WrappingAny(w) /\ NotDone(r.done_any),
                             WrappingTwo(w) /\ NotDone(r.done_two),
                             WrappingAll(w)),
                 WrappingAll(w))
        Pass(st) ==
          IF st.err # "ok"
          THEN [run |-> [r EXCEPT !.at = "raised", !.err = st.err], st |-> st]
          ELSE Checked(st, st.is_wrapping[st.largest + 1])
    IN  Bind(AddSite(st0, Omitted, rnd), Pass)

\* one pass of the loop over the sites of the method that was called
SiteStep(r, st0, rnd, out) ==
    IF r.call = "calc_p_infinity" THEN CalcPInfinityStep(r, st0, rnd)
    ELSE IF r.call = "calc_p_wrapping" THEN CalcPWrappingStep(r, st0, rnd)
    ELSE PercolationPointStep(r, st0, rnd, out)

-----------------------------------------------------------------------------
(* The state machine.                                                      *)

Install(st) ==
    /\ cluster' = st.cluster
    /\ vec' = st.vec
    /\ next' = st.next
    /\ bonds' = st.bonds
    /\ first' = st.first
    /\ size' = st.size
    /\ is_wrapping' = st.is_wrapping
    /\ nclusters' = st.nclusters
    /\ nbonds' = st.nbonds
    /\ largest' = st.largest
    /\ npercolating' = st.npercolating
    /\ nclus_percol' = st.nclus_percol
    /\ npaths' = st.npaths
    /\ occupied' = st.occupied
    /\ vacant' = st.vacant
    /\ err' = st.err

\* the random draws random_integers(0, num_vacant-1) can return
Draws(arg) ==
    IF NotSite(arg) /\ Len(vacant) > 0 THEN 0 .. (Len(vacant) - 1) ELSE {0}

\* __init__(lattice) for a lattice of the set `lattices'
InitEngine(lattices) ==
    /\ lat \in lattices
    /\ special = NoRule
    /\ lastarg = NONE
    /\ \E st \in {ResetState} :
          /\ cluster = st.cluster
          /\ vec = st.vec
          /\ next = st.next
          /\ bonds = st.bonds
          /\ first = st.first
          /\ size = st.size
          /\ is_wrapping = st.is_wrapping
          /\ nclusters = st.nclusters
          /\ nbonds = st.nbonds
          /\ largest = st.largest
          /\ npercolating = st.npercolating
          /\ nclus_percol = st.nclus_percol
          /\ npaths = st.npaths
          /\ occupied = st.occupied
          /\ vacant = st.vacant
          /\ err = st.err

\* one engine constructed on the lattice
InitOn(lattices) ==
    InitEngine(lattices) /\ twin = NoTwin /\ nblist = NoList /\ run = NoRun

Init == InitOn(Range(Lattices))

\* add_percolating_site(site): site omitted, or any site index
AddPercolatingSite ==
    \E arg \in {Omitted} \cup Sites :
      \E rnd \in Draws(arg) :
        /\ \E st0 \in {St} : \E st \in {AddSite(st0, arg, rnd)} : Install(st)
        /\ lastarg' = arg
        /\ UNCHANGED <<lat, special, twin, nblist, run>>

\* reset()
Reset ==
    /\ \E st \in {ResetState} : Install(st)
    /\ lastarg' = ResetCall
    /\ UNCHANGED <<lat, special, twin, nblist, run>>

Next == AddPercolatingSite \/ Reset

Spec == Init /\ [][Next]_vars

\* the engine constructed on a lattice with asymmetric neighbor data
InitAsym == InitOn(Range(AsymLattices))

SpecAsym == InitAsym /\ [][Next]_vars

\* The 2x2x2 periodic simple cubic lattice: eight sites with six slots each,
\* the three distinct neighbors each reached by two translations.
CubicLattice == GridLattice(<<2, 2, 2>>, <<TRUE, TRUE, TRUE>>, <<-1, 1>>)

InitCubic == InitOn({CubicLattice})

\* add_percolating_site by a caller that does not go on after an IndexError
AddUntilIndexError == err # "IndexError" /\ AddPercolatingSite

NextCubic == AddUntilIndexError \/ Reset

SpecCubic == InitCubic /\ [][NextCubic]_vars

\* The 4-site motif: four sites of a cell that all neighbor each other
\* within the cell (no translations), so that every pair of sites has the
\* other two as common neighbors.
MotifLattice ==
    [nsites    |-> 4,
     K         |-> 4,
     coo       |-> [s \in 0..3 |-> <<s % 2, s \div 2, 0>>],
     nn        |-> [s \in 0..3 |-> [k \in 1..3 |-> IF k - 1 < s THEN k - 1 ELSE k]],
     T_vectors |-> [s \in 0..3 |-> [k \in 1..3 |-> Zero3]]]

\* The lattices the special rule is run on: the periodic chain of ChainLen
\* sites (adjacent sites have no common neighbor), the periodic chain of
\* three sites (every pair has the third site as common neighbor) and the
\* 4-site motif.
SpecialLattices ==
    << GridLattice(<<ChainLen, 1, 1>>, <<TRUE, FALSE, FALSE>>, <<-1, 1>>),
       GridLattice(<<3, 1, 1>>, <<TRUE, FALSE, FALSE>>, <<-1, 1>>),
       MotifLattice >>

InitSpecial == InitOn(Range(SpecialLattices))

\* set_special_percolation_rule(num_common), called on an engine that holds
\* no site (right after construction or after reset)
SetSpecialPercolationRule ==
    /\ occupied = <<>>
    /\ \E num_common \in 0..MaxCommon : special' = num_common
    /\ UNCHANGED <<lat, cluster, vec, next, bonds, first, size, is_wrapping,
                   nclusters, nbonds, largest, npercolating, nclus_percol,
                   npaths, occupied, vacant, err, lastarg, twin, nblist, run>>

NextSpecial == AddPercolatingSite \/ Reset \/ SetSpecialPercolationRule

SpecSpecial == InitSpecial /\ [][NextSpecial]_vars

\* The lattices the queries are run on: the periodic chain of ChainLen sites
\* and the two far-apart rows of two sites.
QueryLattices ==
    << GridLattice(<<ChainLen, 1, 1>>, <<TRUE, FALSE, FALSE>>, <<-1, 1>>),
       GridLattice(<<2, 2, 1>>, <<TRUE, FALSE, FALSE>>, <<-1, 1>>) >>

InitQuery == InitOn(Range(QueryLattices))

\* get_cluster_of_site(site), with the default arguments vec = [0, 0, 0] and
\* visited = []
GetClusterOfSiteCall ==
    \E site \in Sites :
      /\ \E st0 \in {St} :
           \E r \in {GetClusterOfSite(st0, site, Zero3, <<>>, 1)} :
             Install([r.st EXCEPT !.err = r.err])
      /\ lastarg' = ClusterQuery
      /\ UNCHANGED <<lat, special, twin, nblist, run>>

\* get_common_neighbors(site1, site2): returns a new list
GetCommonNeighborsCall ==
    \E site1 \in Sites : \E site2 \in Sites :
      /\ GetCommonNeighbors(site1, site2) \subseteq Sites
      /\ err' = "ok"
      /\ lastarg' = CommonQuery
      /\ UNCHANGED <<lat, special, cluster, vec, next, bonds, first, size,
                     is_wrapping, nclusters, nbonds, largest, npercolating,
                     nclus_percol, npaths, occupied, vacant, twin,
                     nblist, run>>

NextQuery ==
    AddPercolatingSite \/ Reset \/ GetClusterOfSiteCall \/ GetCommonNeighborsCall

SpecQuery == InitQuery /\ [][NextQuery]_vars

\* Two engines constructed on one lattice object.  Each __init__ binds
\* self._cluster to the array lattice._occup ("references for convenient
\* access (no copies)"), so the variable cluster is the one array both
\* engines read and write.  The other variables are the fields of the first
\* engine; twin.second holds the fields of the second engine, and
\* twin.alone1 / twin.alone2 the state each engine has after the same calls
\* on a lattice of its own.  The lattice has three sites that are no
\* neighbors of each other.
TwinLattice == GridLattice(<<3, 1, 1>>, <<FALSE, FALSE, FALSE>>, <<-1, 1>>)

\* the second engine as its methods see it: its own fields, the shared array
Second == [twin.second EXCEPT !.cluster = cluster]

\* Percolator(lattice) twice: both constructors end with reset()
InitTwo ==
    /\ InitEngine({TwinLattice})
    /\ nblist = NoList
    /\ run = NoRun
    /\ \E st \in {ResetState} :
         twin = [second |-> st, alone1 |-> st, alone2 |-> st]

\* add_percolating_site(site) on the first engine
AddPercolatingSite1 ==
    \E arg \in {Omitted} \cup Sites :
      \E rnd \in Draws(arg) :
        /\ \E st0 \in {St} : \E st \in {AddSite(st0, arg, rnd)} : Install(st)
        /\ lastarg' = arg
        /\ twin' = [twin EXCEPT !.alone1 = AddSite(twin.alone1, arg, rnd)]
        /\ UNCHANGED <<lat, special, nblist, run>>

\* add_percolating_site(site) on the second engine
AddPercolatingSite2 ==
    \E arg \in {Omitted} \cup Sites :
      \E rnd \in IF NotSite(arg) /\ Len(twin.second.vacant) > 0
                 THEN 0 .. (Len(twin.second.vacant) - 1) ELSE {0} :
        \E st \in {AddSite(Second, arg, rnd)} :
          /\ cluster' = st.cluster
          /\ twin' = [twin EXCEPT !.second = st,
                                  !.alone2 = AddSite(twin.alone2, arg, rnd)]
          /\ UNCHANGED <<lat, special, vec, next, bonds, first, size,
                         is_wrapping, nclusters, nbonds, largest, npercolating,
                         nclus_percol, npaths, occupied, vacant, err, lastarg,
                         nblist, run>>

\* reset() on the first engine
Reset1 ==
    /\ \E st \in {ResetState} :
         /\ Install(st)
         /\ twin' = [twin EXCEPT !.alone1 = st]
    /\ lastarg' = ResetCall
    /\ UNCHANGED <<lat, special, nblist, run>>

\* reset() on the second engine: self._cluster[:] = -1 writes the shared array
Reset2 ==
    /\ \E st \in {ResetState} :
         /\ cluster' = st.cluster
         /\ twin' = [twin EXCEPT !.second = st, !.alone2 = st]
    /\ UNCHANGED <<lat, special, vec, next, bonds, first, size, is_wrapping,
                   nclusters, nbonds, largest, npercolating, nclus_percol,
                   npaths, occupied, vacant, err, lastarg, nblist, run>>

NextTwo == AddPercolatingSite1 \/ AddPercolatingSite2 \/ Reset1 \/ Reset2

SpecTwo == InitTwo /\ [][NextTwo]_vars

\* The neighbor list builder on its own.  nblist.nl is a NeighborList
\* instance; call, i, dr and r name the last call on it, entries its result
\* (neighbors and T_vectors for the builder of the engine).  The sites lie
\* on the grid points of the x axis of the cell; the engine variables stay
\* as constructed.
MaxCoords == 3

\* the grid of the fractional coordinates: multiples of 1 / CellK
CellK == 8

\* the cells: the cube, and a cell with one short and two long axes
NblCells == {<<1, 1, 1>>, <<1, 4, 4>>}

\* the points of the x axis that hold sites
NblPoints == {0, 1, 3, 5, 6}

\* the lists of up to MaxCoords coordinates on distinct points of the x axis
NblCoordinates ==
    LET pts == {<<x, 0, 0>> : x \in NblPoints}
    IN  UNION {{c \in [1..n -> pts] : \A a, b \in 1..n : a # b => c[a] # c[b]} :
               n \in 1..MaxCoords}

\* the box numbers of the constructor: the default and two boxes per axis
NblBoxes == {NoBoxes, <<2, 2, 2>>}

\* the interaction ranges of the constructor: None and 1.5 x-lengths
NblRanges == {NoRange, 12}

\* the tolerances dr: 0, 1/8 and 1/4 of the x-length
NblTolerances == {0, 1, 2}

InitNbl ==
    /\ InitEngine({TwinLattice})
    /\ twin = NoTwin
    /\ run = NoRun
    /\ \E avec \in NblCells : \E coo \in NblCoordinates :
         \E nboxes \in NblBoxes : \E range \in NblRanges :
           nblist = [nl |-> NeighborList(avec, CellK, coo, range, nboxes),
                     call |-> "none", i |-> NONE, dr |-> 0, r |-> NoRange,
                     err |-> "ok", entries |-> <<>>,
                     neighbors |-> <<>>, T_vectors |-> <<>>]

NblSites == 0 .. (nblist.nl.ncoo - 1)

\* get_nearest_neighbors(i, dr) on the constructed list
GetNearestNeighborsCall ==
    /\ nblist.call = "none" /\ nblist.nl.err = "ok"
    /\ \E i \in NblSites : \E dr \in NblTolerances :
         nblist' = [nblist EXCEPT !.call = "nearest", !.i = i, !.dr = dr,
                       !.entries = GetNearestNeighbors(nblist.nl, i, dr)]
    /\ UNCHANGED <<lat, special, cluster, vec, next, bonds, first, size,
                   is_wrapping, nclusters, nbonds, largest, npercolating,
                   nclus_percol, npaths, occupied, vacant, err, lastarg, twin, run>>

\* get_neighbors_and_distances(i, r) on the constructed list
GetNeighborsAndDistancesCall ==
    /\ nblist.call = "none" /\ nblist.nl.err = "ok"
    /\ \E i \in NblSites : \E r \in NblRanges :
         \E res \in {GetNeighborsAndDistances(nblist.nl, i, r)} :
           nblist' = [nblist EXCEPT !.call = "range", !.i = i, !.r = r,
                         !.err = res.err, !.entries = res.entries]
    /\ UNCHANGED <<lat, special, cluster, vec, next, bonds, first, size,
                   is_wrapping, nclusters, nbonds, largest, npercolating,
                   nclus_percol, npaths, occupied, vacant, err, lastarg, twin, run>>

\* Percolator._build_neighbor_list(dr) for the cell and the coordinates
BuildNeighborListCall ==
    /\ nblist.call = "none"
    /\ \E dr \in NblTolerances :
         \E res \in {BuildNeighborList(nblist.nl.avec, nblist.nl.K,
                        [k \in 1..nblist.nl.ncoo |-> nblist.nl.coo[k - 1]], dr)} :
           nblist' = [nblist EXCEPT !.call = "build", !.dr = dr,
                         !.err = res.err, !.neighbors = res.neighbors,
                         !.T_vectors = res.T_vectors]
    /\ UNCHANGED <<lat, special, cluster, vec, next, bonds, first, size,
                   is_wrapping, nclusters, nbonds, largest, npercolating,
                   nclus_percol, npaths, occupied, vacant, err, lastarg, twin, run>>

NextNbl ==
    GetNearestNeighborsCall \/ GetNeighborsAndDistancesCall
        \/ BuildNeighborListCall

SpecNbl == InitNbl /\ [][NextNbl]_vars

\* The convolution on its own.  run.Pn is a discrete observable over
\* n = 1..nsites occupied sites, run.plist the probabilities 1/PGrid ..
\* (PGrid-1)/PGrid, run.Pp the sums times PGrid^nsites.

\* Largest number of sites of a convolved observable.
MaxN == 10

\* Pn = 0 below n = k and 1 from there on, or the other way round
StepUp(N, k) == [n \in 1..N |-> IF n <= k THEN 0 ELSE 1]

StepDown(N, k) == [n \in 1..N |-> IF n <= k THEN 1 ELSE 0]

InitConv ==
    /\ InitEngine({TwinLattice})
    /\ twin = NoTwin
    /\ nblist = NoList
    /\ \E N \in 1..MaxN : \E k \in 0..N : \E Pn \in {StepUp(N, k), StepDown(N, k)} :
         run = [call |-> "none", nsites |-> N, Pn |-> Pn,
                plist |-> [i \in 1..(PGrid - 1) |-> i], Pp |-> <<>>]

\* the convolution at the end of a calc method, on the recorded Pn
Convolution ==
    /\ run.call = "none"
    /\ run' = [run EXCEPT !.call = "convolution",
                          !.Pp = Convolve(run.Pn, run.nsites, run.plist, PGrid)]
    /\ UNCHANGED <<lat, special, cluster, vec, next, bonds, first, size,
                   is_wrapping, nclusters, nbonds, largest, npercolating,
                   nclus_percol, npaths, occupied, vacant, err, lastarg, twin,
                   nblist>>

NextConv == Convolution

SpecConv == InitConv /\ [][NextConv]_vars

\* The sampler on an engine.  The lattices:
\*  1: periodic chain of ChainLen sites, linked along x only;
\*  2: periodic chain of three sites whose sites also neighbor their own
\*     images along y and z;
\*  3: two far-apart sites that each neighbor their own images along x, y
\*     and z;
\*  4: three sites without neighbors;
\*  5: the 2x2x2 cubic lattice.
SelfImageLattice ==
    [nsites    |-> 2,
     K         |-> 2,
     coo       |-> [s \in 0..1 |-> <<0, 0, s>>],
     nn        |-> [s \in 0..1 |-> [k \in 1..6 |-> s]],
     T_vectors |-> [s \in 0..1 |->
                      [k \in 1..6 |->
                          [d \in 1..3 |-> IF d = (k + 1) \div 2
                                          THEN (IF k % 2 = 1 THEN -1 ELSE 1)
                                          ELSE 0]]]]

SampleLattices ==
    << GridLattice(<<ChainLen, 1, 1>>, <<TRUE, FALSE, FALSE>>, <<-1, 1>>),
       GridLattice(<<3, 1, 1>>, <<TRUE, TRUE, TRUE>>, <<-1, 1>>),
       SelfImageLattice,
       TwinLattice,
       CubicLattice >>

\* The values of the argument samples.
SampleCounts == {-1, 0, 1, 2}

\* plist: the multiples of 1/PGrid inside (0,1)
SamplePlist == [i \in 1..(PGrid - 1) |-> i]

InitSample == InitOn(Range(SampleLattices))

\* calc_p_infinity(plist, samples), up to the loop over the samples
CalcPInfinityCall ==
    /\ run = NoRun
    /\ \E samples \in SampleCounts :
         run' = CalcPInfinityEntry(samples, SamplePlist)
    /\ UNCHANGED <<lat, special, cluster, vec, next, bonds, first, size,
                   is_wrapping, nclusters, nbonds, largest, npercolating,
                   nclus_percol, npaths, occupied, vacant, err, lastarg, twin,
                   nblist>>

\* calc_p_wrapping(plist, samples), up to the loop over the samples
CalcPWrappingCall ==
    /\ run = NoRun
    /\ \E samples \in SampleCounts :
         run' = CalcPWrappingEntry(samples, SamplePlist)
    /\ UNCHANGED <<lat, special, cluster, vec, next, bonds, first, size,
                   is_wrapping, nclusters, nbonds, largest, npercolating,
                   nclus_percol, npaths, occupied, vacant, err, lastarg, twin,
                   nblist>>

\* percolation_point(samples), up to the loop over the samples
PercolationPointCall ==
    /\ run = NoRun
    /\ \E samples \in SampleCounts : run' = PercolationPointEntry(samples)
    /\ UNCHANGED <<lat, special, cluster, vec, next, bonds, first, size,
                   is_wrapping, nclusters, nbonds, largest, npercolating,
                   nclus_percol, npaths, occupied, vacant, err, lastarg, twin,
                   nblist>>

\* the head of the loop over the samples: the next trial, or the return
Trial ==
    /\ run # NoRun /\ run.at = "trial"
    /\ \E x \in {TrialStep(run, St)} :
         /\ run' = x.run
         /\ Install(x.st)
         /\ lastarg' = IF x.run.at = "site" THEN ResetCall ELSE lastarg
    /\ UNCHANGED <<lat, special, twin, nblist>>

\* one pass of the loop over the sites, with the draw of random_integers
Site ==
    /\ run # NoRun /\ run.at = "site"
    /\ \E rnd \in Draws(Omitted) : \E out \in SaveClusterOutcomes :
         \E x \in {SiteStep(run, St, rnd, out)} :
           /\ run' = x.run
           /\ Install(x.st)
           /\ lastarg' = Omitted
    /\ UNCHANGED <<lat, special, twin, nblist>>

NextSample ==
    CalcPInfinityCall \/ CalcPWrappingCall \/ PercolationPointCall
        \/ Trial \/ Site

SpecSample == InitSample /\ [][NextSample]_vars

-----------------------------------------------------------------------------
(* Vocabulary of the properties.                                           *)

\* the occupied sites
Occ == Range(occupied)

\* the ids of the cluster table, and the live ones among them
Ids == 0 .. (Len(size) - 1)

Live == {c \in Ids : size[c + 1] > 0}

IsWrapping(c) == Sum3(is_wrapping[c + 1]) > 0

\* the sum of f[x] over the finite set S
RECURSIVE SumOver(_, _)
SumOver(f, S) ==
    IF S = {} THEN 0
    ELSE LET x == CHOOSE y \in S : TRUE IN f[x] + SumOver(f, S \ {x})

\* the occupied sites connected to the sites of `seen' by paths of
\* neighbor-list entries between occupied sites
RECURSIVE Component(_)
Component(seen) ==
    LET more == {j \in Occ : \E i \in seen : j \in Range(L.nn[i])}
    IN  IF more \subseteq seen THEN seen ELSE Component(seen \cup more)

\* an add_percolating_site call has acted and returned normally
Added == lastarg # NONE /\ err = "ok" /\ occupied # <<>>

-----------------------------------------------------------------------------
(* C1: under the default rule, two occupied sites carry the same cluster   *)
(* id if and only if a path of neighbor-list bonds between occupied sites  *)
(* connects them, and vacant sites carry the vacant sentinel.              *)
C1_PartitionIsComponents ==
    special = NoRule =>
      /\ \A s \in Sites \ Occ : cluster[s] = NONE
      /\ \A i \in Occ : \A j \in Occ :
            (cluster[i] = cluster[j]) <=> (j \in Component({i}))

\* the neighbor slot k of site i is a realized bond: both ends are occupied
\* and the engine has marked the pair in _bonds on both ends
Realized(i, k) ==
    LET j == L.nn[i][k]
        a == Index(L.nn[i], j)
        b == Index(L.nn[j], i)
    IN  /\ cluster[i] >= 0 /\ cluster[j] >= 0
        /\ a < Len(bonds[i]) /\ bonds[i][a + 1]
        /\ b # NONE /\ b < Len(bonds[j]) /\ bonds[j][b + 1]

\* Unfolding of a cluster into the infinite lattice, independent of _vec:
\* p maps sites to the lattice cell their image lies in; it is extended
\* along realized bonds until no new site is reached.
RECURSIVE Unfold(_)
Unfold(p) ==
    LET ext == UNION {{<<i, k>> : k \in {k \in 1..Len(L.nn[i]) :
                                   /\ Realized(i, k)
                                   /\ L.nn[i][k] \notin DOMAIN p}} :
                      i \in DOMAIN p}
    IN  IF ext = {} THEN p
        ELSE LET e == CHOOSE ik \in ext : TRUE
                 i == e[1]
                 j == L.nn[i][e[2]]
             IN  Unfold([s \in (DOMAIN p) \cup {j} |->
                            IF s = j THEN VAdd(p[i], L.T_vectors[i][e[2]])
                            ELSE p[s]])

\* The realized bonds of the cluster with head h contain a cycle whose net
\* lattice translation has a nonzero component along axis d.  Every cycle is
\* a combination of the cycles that one realized bond closes in the
\* unfolding, so it is enough to look at those.
CycleAlong(h, d) ==
    LET p == Unfold([s \in {h} |-> Zero3])
    IN  \E i \in DOMAIN p : \E k \in 1..Len(L.nn[i]) :
           /\ Realized(i, k)
           /\ L.nn[i][k] \in DOMAIN p
           /\ VSub(VAdd(p[i], L.T_vectors[i][k]), p[L.nn[i][k]])[d] # 0

-----------------------------------------------------------------------------
(* C2: a live cluster has wrapping[c][d] > 0 exactly when its realized     *)
(* bonds contain a cycle whose net lattice translation has a nonzero       *)
(* component along d (so it is wrapping iff some cycle has a nonzero net   *)
(* translation).                                                           *)
C2_WrappingIffCycle ==
    \A c \in Live : \A d \in 1..3 :
        first[c + 1] \in Sites /\
        ((is_wrapping[c + 1][d] > 0) <=> CycleAlong(first[c + 1], d))

\* a cluster wraps along x and its bonds do close around the cell
C2_Witness ==
    /\ Added
    /\ \E c \in Live :
          /\ size[c + 1] >= 3
          /\ is_wrapping[c + 1][1] > 0 /\ CycleAlong(first[c + 1], 1)
          /\ is_wrapping[c + 1][2] = 0 /\ ~CycleAlong(first[c + 1], 2)

-----------------------------------------------------------------------------
(* C4: for every live cluster c, following next from first[c] to the END   *)
(* sentinel visits exactly size[c] distinct sites, all with cluster id c,  *)
(* and every occupied site is reached from the head of its cluster.        *)
C4_ChainIsCluster ==
    /\ \A c \in Live :
          /\ first[c + 1] \in Sites
          /\ LET w == Walk(next, first[c + 1], L.nsites)
             IN  /\ Len(w) = size[c + 1]
                 /\ Cardinality(Range(w)) = Len(w)
                 /\ \A s \in Range(w) : cluster[s] = c
    /\ \A i \in Occ :
          /\ cluster[i] \in Live
          /\ first[cluster[i] + 1] \in Sites
          /\ i \in Range(Walk(next, first[cluster[i] + 1], L.nsites))

\* a merge has spliced a chain of two or more sites behind a head that
\* already had a successor
C4_Witness ==
    /\ Added
    /\ \E c \in Live :
          /\ size[c + 1] >= 4
          /\ Len(Walk(next, first[c + 1], L.nsites)) = size[c + 1]

-----------------------------------------------------------------------------
(* C5: the sizes of all cluster-table entries add up to the number of      *)
(* occupied sites, and nclusters is the number of entries with size > 0.   *)
C5_SizesAndCount ==
    /\ SumOver(size, DOMAIN size) = Len(occupied)
    /\ nclusters = Cardinality(Live)

\* clusters have merged and a retired table entry is left behind
C5_Witness ==
    /\ Added
    /\ \E c \in Ids : size[c + 1] = 0
    /\ \E c \in Live : size[c + 1] >= 3
    /\ nclusters = 1

-----------------------------------------------------------------------------
(* C6: npercolating is the sum of size[c] over the wrapping clusters, and  *)
(* nclus_percol is the number of wrapping clusters.                        *)
C6_PercolatingCounters ==
    /\ npercolating = SumOver(size, {i \in DOMAIN size : IsWrapping(i - 1)})
    /\ nclus_percol = Cardinality({c \in Ids : IsWrapping(c)})

\* a wrapping cluster of two sites stands next to a cluster that does not
\* wrap
C6_Witness ==
    /\ Added
    /\ \E c \in Live : IsWrapping(c) /\ size[c + 1] = 2
    /\ \E c \in Live : ~IsWrapping(c)
    /\ npercolating = 2 /\ nclus_percol = 1

-----------------------------------------------------------------------------
(* C7: npaths is the sum of wrapping[c][d] over all clusters c and axes d. *)
C7_PathsAreWrappingSum ==
    npaths = SumOver([i \in DOMAIN is_wrapping |-> Sum3(is_wrapping[i])],
                     DOMAIN is_wrapping)

\* wrapping counts along two axes, after wrapping clusters have merged
C7_Witness ==
    /\ Added
    /\ npaths >= 3
    /\ \E c \in Live : is_wrapping[c + 1][1] > 0 /\ is_wrapping[c + 1][2] > 0

-----------------------------------------------------------------------------
(* C9: once a site is occupied, largest is a live cluster and no live      *)
(* cluster is larger than it.                                              *)
C9_LargestIsLargest ==
    occupied # <<>> =>
      /\ largest \in Live
      /\ \A c \in Live : size[largest + 1] >= size[c + 1]

\* the largest cluster is not the first one created, next to a smaller one
C9_Witness ==
    /\ Added
    /\ largest > 0
    /\ \E c \in Live : size[c + 1] < size[largest + 1]

-----------------------------------------------------------------------------
\* the engine after the sites of `order' were added one by one to st (each
\* by the random draw that selects it)
RECURSIVE RunOrder(_, _)
RunOrder(st0, order) ==
    LET Pass(st) ==
          IF order = <<>> THEN st
          ELSE RunOrder(AddSite(st, Omitted, Index(st.vacant, Head(order))),
                        Tail(order))
    IN  Bind(st0, Pass)

\* the multiset of (size[c], wrapping[c]) over the live clusters of st
Outcome(st) ==
    LET live == {c \in 1..Len(st.size) : st.size[c] > 0}
        pair(c) == <<st.size[c], st.is_wrapping[c]>>
    IN  [x \in {pair(c) : c \in live} |-> Cardinality({c \in live : pair(c) = x})]

\* the sweep that adds the sites in index order from a reset state
IndexOrderSweep == RunOrder(ResetState, [i \in 1..L.nsites |-> i - 1])

(* C3: whatever the order in which all N sites were added from a reset     *)
(* state, the final multiset of (size[c], wrapping[c]) over the live       *)
(* clusters, and npaths, are the same: here, the same as after the sweep   *)
(* in index order.                                                         *)
C3_OrderInvariant ==
    Len(occupied) = L.nsites =>
      /\ Outcome(St) = Outcome(IndexOrderSweep)
      /\ npaths = IndexOrderSweep.npaths

-----------------------------------------------------------------------------
\* the number of true entries of _bonds
TrueBonds ==
    SumOver([s \in Sites |-> Cardinality({k \in 1..Len(bonds[s]) : bonds[s][k]})],
            Sites)

\* twice B_max: the sum over the sites of the number of distinct neighbor ids
TwiceBmax == SumOver([s \in Sites |-> NumDistinct(s)], Sites)

(* C8: on any lattice, nbonds is half the number of true entries of bonds, *)
(* and 0 <= nbonds <= B_max, B_max being half the sum over the sites of    *)
(* the number of distinct neighbor ids.                                    *)
C8_BondCount ==
    /\ 2 * nbonds = TrueBonds
    /\ 0 <= nbonds
    /\ 2 * nbonds <= TwiceBmax

-----------------------------------------------------------------------------
(* C10: add_site called with the index s of a vacant site occupies exactly *)
(* s: s is appended to occupied and removed from vacant, and no other site *)
(* changes occupancy.                                                      *)
C10_ExplicitSiteIsOccupied ==
    [][\A s \in Sites :
          (lastarg' = s /\ s \in Range(vacant)) =>
             /\ occupied' = Append(occupied, s)
             /\ Range(vacant') = Range(vacant) \ {s}
             /\ \A t \in Sites \ {s} : (cluster'[t] >= 0) <=> (cluster[t] >= 0)]_vars

-----------------------------------------------------------------------------
\* the engine data (everything reset() sets up)
Engine == <<cluster, vec, next, bonds, first, size, is_wrapping, nclusters,
            nbonds, largest, npercolating, nclus_percol, npaths, occupied,
            vacant>>

(* C11: add_site called with the index s of an already occupied site       *)
(* aborts with an error and leaves the whole engine state unchanged, for   *)
(* every site index s; it never occupies another site instead.             *)
C11_OccupiedSiteAborts ==
    [][\A s \in Sites :
          (lastarg' = s /\ s \in Range(occupied)) =>
             /\ err' \in {"ValueError", "IndexError"}
             /\ UNCHANGED Engine]_vars

-----------------------------------------------------------------------------
\* the list of the neighbor behind slot k of site i has an entry for i with
\* the opposite translation
HasOpposite(i, k) ==
    LET j == L.nn[i][k]
    IN  \E m \in 1..Len(L.nn[j]) :
           L.nn[j][m] = i /\ L.T_vectors[j][m] = VNeg(L.T_vectors[i][k])

(* C12: when the newly added site i has a slot (j, T) to an occupied site  *)
(* j whose list has no entry i with translation -T, the add_site aborts    *)
(* with an error instead of completing the merge.                          *)
C12_AsymmetryAborts ==
    [][(lastarg' # NONE /\ Len(occupied') = Len(occupied) + 1) =>
          LET i == occupied'[Len(occupied')]
          IN  (\E k \in 1..Len(L.nn[i]) :
                  cluster[L.nn[i][k]] >= 0 /\ ~HasOpposite(i, k))
              => err' \in {"ValueError", "IndexError"}]_vars

-----------------------------------------------------------------------------
\* the fractional vector along slot k of site i: (c_j + T) - c_i, scaled
SlotVector(i, k) ==
    VSub(VAdd(L.coo[L.nn[i][k]], VScale(L.K, L.T_vectors[i][k])), L.coo[i])

\* the slots of occupied sites that lead to a site of the same cluster
SameClusterSlots ==
    {p \in Sites \X (1..6) :
        /\ p[2] <= Len(L.nn[p[1]])
        /\ cluster[p[1]] >= 0
        /\ cluster[L.nn[p[1]][p[2]]] = cluster[p[1]]}

\* v is zero, or has a component of magnitude above one half
ZeroOrWrapping(v) == v = Zero3 \/ \E d \in 1..3 : 2 * Abs(v[d]) > L.K

(* C13, as stated: for every occupied site i and every slot (j, T) of i    *)
(* with j in the same cluster, vec[i] + (c_j + T - c_i) - vec[j] is zero   *)
(* or has a component of magnitude above 0.5.                              *)
C13_EdgeVectorAsStated ==
    \A p \in SameClusterSlots :
       ZeroOrWrapping(VSub(VAdd(vec[p[1]], SlotVector(p[1], p[2])),
                           vec[L.nn[p[1]][p[2]]]))

(* C13, amended: for every occupied site i and every slot (j, T) of i with *)
(* j in the same cluster, vec[j] + (c_j + T - c_i) - vec[i] is zero or has *)
(* a component of magnitude above 0.5.                                     *)
C13_EdgeVector ==
    \A p \in SameClusterSlots :
       ZeroOrWrapping(VSub(VAdd(vec[L.nn[p[1]][p[2]]], SlotVector(p[1], p[2])),
                           vec[p[1]]))

\* a cluster holds an edge whose vector is zero and an edge that wraps
C13_Witness ==
    /\ Added
    /\ \E p \in SameClusterSlots :
          /\ L.nn[p[1]][p[2]] # p[1]
          /\ VSub(VAdd(vec[L.nn[p[1]][p[2]]], SlotVector(p[1], p[2])), vec[p[1]]) = Zero3
    /\ \E p \in SameClusterSlots :
          VSub(VAdd(vec[L.nn[p[1]][p[2]]], SlotVector(p[1], p[2])), vec[p[1]]) # Zero3

-----------------------------------------------------------------------------
\* the engine runs on the periodic chain of ChainLen sites, under the
\* default rule
OnChain == lat = Lattices[1] /\ special = NoRule

(* C14: on the periodic chain (default rule), whatever the order: while a  *)
(* site is vacant no cluster is wrapping and npaths = 0 (with one site     *)
(* missing the others form one cluster with wrapping (0,0,0)); once the    *)
(* last site is added there is one cluster holding every site, with        *)
(* wrapping (1,0,0), and npaths = 1.                                       *)
C14_ChainWrapsWhenFull ==
    OnChain =>
      /\ Len(occupied) < ChainLen =>
            npaths = 0 /\ \A c \in Ids : is_wrapping[c + 1] = Zero3
      /\ Len(occupied) = ChainLen - 1 =>
            \E c \in Live : Live = {c} /\ size[c + 1] = ChainLen - 1
      /\ Len(occupied) = ChainLen =>
            /\ \E c \in Live : /\ Live = {c}
                                /\ size[c + 1] = ChainLen
                                /\ is_wrapping[c + 1] = <<1, 0, 0>>
            /\ npaths = 1

\* the last site of the chain has been added
C14_Witness ==
    OnChain /\ Added /\ Len(occupied) = ChainLen /\ npaths = 1

-----------------------------------------------------------------------------
(* C15: on the 2x2x2 periodic simple cubic lattice, adding all eight sites *)
(* in any order completes without error and ends with exactly one cluster  *)
(* of size 8 whose wrapping components are all at least 1, with            *)
(* nbonds = 12 and npaths >= 3.                                            *)
C15_CubicFillsUp ==
    /\ err # "IndexError"
    /\ vacant = <<>> =>
          /\ \E c \in Live : /\ Live = {c}
                              /\ size[c + 1] = 8
                              /\ \A d \in 1..3 : is_wrapping[c + 1][d] >= 1
          /\ nbonds = 12
          /\ npaths >= 3

-----------------------------------------------------------------------------
\* the occupied common neighbors of the sites i and j
OccupiedCommon(i, j) ==
    {n \in Range(L.nn[i]) \cap Range(L.nn[j]) : cluster[n] >= 0}

(* C16: with the common-neighbor rule installed for the threshold k, the   *)
(* predicate is true for a pair of sites i, j exactly when at least k of   *)
(* their common neighbors are occupied, also for pairs without common      *)
(* neighbors.                                                              *)
C16_RuleIsThreshold ==
    special # NoRule =>
      \A i \in Sites : \A j \in Sites :
         CheckSpecial(St, i, j) <=> (Cardinality(OccupiedCommon(i, j)) >= special)

-----------------------------------------------------------------------------
\* the pair behind slot k of site i is in one cluster with its bond marked
BondedTogether(i, k) ==
    LET j == L.nn[i][k]
        a == Index(L.nn[i], j)
    IN  /\ cluster[i] = cluster[j]
        /\ a < Len(bonds[i]) /\ bonds[i][a + 1]

(* C17: with a common-neighbor rule installed, after every add_site every  *)
(* pair of adjacent occupied sites that has at least k occupied common     *)
(* neighbors is in the same cluster with its bond marked, also the pairs   *)
(* that pass only since the newly added site is their common neighbor.     *)
C17_BondedPairsAreMerged ==
    special # NoRule =>
      \A i \in Occ : \A k \in 1..Len(L.nn[i]) :
         (L.nn[i][k] \in Occ /\ Cardinality(OccupiedCommon(i, L.nn[i][k])) >= special)
            => BondedTogether(i, k)

-----------------------------------------------------------------------------
\* the counters and the wrapping table of the engine state st
Counters(st) ==
    <<st.nbonds, st.is_wrapping, st.npaths, st.npercolating, st.nclus_percol>>

\* the merge attempt add_percolating_site makes for slot k of site i
Reexamine(i, k) ==
    MergeClusters(St, cluster[L.nn[i][k]], L.nn[i][k], cluster[i], i,
                  VNeg(L.T_vectors[i][k]))

(* C18: examining again a pair of sites whose bond is already marked and   *)
(* which already belong to the same cluster, as the next-nearest-neighbor  *)
(* pass of the special rule does, is a no-op: nbonds, wrapping, npaths,    *)
(* npercolating and nclus_percol are the same after the attempt.           *)
C18_ReexaminationIsNoOp ==
    special # NoRule =>
      \A i \in Occ : \A k \in 1..Len(L.nn[i]) :
         (L.nn[i][k] \in Occ /\ BondedTogether(i, k))
            => Counters(Reexamine(i, k)) = Counters(St)

-----------------------------------------------------------------------------
\* the freshly constructed engine: all sites vacant, all bonds false, empty
\* cluster tables, all aggregates zero, largest unset, next = END and
\* vec = 0 everywhere, vacant holding every site exactly once
Fresh ==
    /\ \A s \in Sites : /\ cluster[s] = NONE
                         /\ next[s] = NONE
                         /\ vec[s] = Zero3
                         /\ \A k \in 1..Len(bonds[s]) : ~bonds[s][k]
    /\ first = <<>> /\ size = <<>> /\ is_wrapping = <<>>
    /\ nclusters = 0 /\ nbonds = 0 /\ npercolating = 0
    /\ nclus_percol = 0 /\ npaths = 0
    /\ largest = NONE
    /\ occupied = <<>>
    /\ Len(vacant) = L.nsites /\ Range(vacant) = Sites

(* C19: reset returns the engine to the freshly constructed state after    *)
(* any sequence of add_site operations: the state after reset is fresh, as *)
(* is the state before the first call, and it is one and the same state    *)
(* after every reset (vacant lists the sites in index order), so that      *)
(* reset after reset changes nothing.                                      *)
C19_ResetRestoresFresh ==
    lastarg \in {NONE, ResetCall} =>
       /\ Fresh
       /\ vacant = [i \in 1..L.nsites |-> i - 1]
       /\ \A s \in Sites : Len(bonds[s]) = NumDistinct(s)

\* reset has been called
C19_Witness == lastarg = ResetCall /\ Fresh

-----------------------------------------------------------------------------
(* C20: the query num_percolating returns the maintained counter           *)
(* npercolating in every reachable state, without raising an error.        *)
C20_NumPercolatingIsCounter ==
    /\ NumPercolating(St).err = "ok"
    /\ NumPercolating(St).value = npercolating

-----------------------------------------------------------------------------
(* C21: the engine state (cluster, vec, next, bonds, the cluster tables,   *)
(* the aggregates, occupied and vacant) is changed only by add_site and    *)
(* reset: the queries get_cluster_of_site and get_common_neighbors leave   *)
(* all of it unchanged.                                                    *)
C21_QueriesChangeNothing ==
    [][lastarg' \in {ClusterQuery, CommonQuery} => UNCHANGED Engine]_vars

\* C22: two engines built on the same lattice are isolated: after every
\* interleaving of reset and add_percolating_site calls on the two engines,
\* the state of each engine, its cluster[] assignment included, is the state
\* it has after the same calls on a lattice of its own
C22_EnginesAreIsolated ==
    twin # NoTwin => St = twin.alone1 /\ Second = twin.alone2

\* the largest translation component the properties look at
MaxT == 3

\* the pairs (j, T) of a coordinate and a translation, other than the
\* coordinate i itself
Images3(i) ==
    {[j |-> j, T |-> <<a, b, c>>] :
        j \in NblSites, a \in (0 - MaxT)..MaxT, b \in (0 - MaxT)..MaxT,
        c \in (0 - MaxT)..MaxT} \ {[j |-> i, T |-> Zero3]}

\* the pairs (j, T) of a list of entries
Pairs(entries) == {[j |-> entries[k].j, T |-> entries[k].T] : k \in 1..Len(entries)}

\* the call is answered
Answered(call) == nblist.call = call /\ nblist.err = "ok"

\* C23: the nearest-neighbor lists of the builder are symmetric: for every
\* entry (j, T) of the list of site i, the list of site j has the entry
\* (i, -T)
C23_ListsAreSymmetric ==
    /\ Answered("nearest") =>
         \A p \in Pairs(nblist.entries) :
            [j |-> nblist.i, T |-> VNeg(p.T)]
                \in Pairs(GetNearestNeighbors(nblist.nl, p.j, nblist.dr))
    /\ Answered("build") =>
         \A i \in NblSites : \A k \in 1..Len(nblist.neighbors[i]) :
            \E k2 \in 1..Len(nblist.neighbors[nblist.neighbors[i][k]]) :
               /\ nblist.neighbors[nblist.neighbors[i][k]][k2] = i
               /\ nblist.T_vectors[nblist.neighbors[i][k]][k2]
                      = VNeg(nblist.T_vectors[i][k])

\* the square of d_min(i): the least distance from site i to an image of a
\* site other than i itself
DMin2(i) ==
    CHOOSE m \in {Dist2(nblist.nl, i, p.j, p.T) : p \in Images3(i)} :
        \A p \in Images3(i) : m <= Dist2(nblist.nl, i, p.j, p.T)

\* C24: get_nearest_neighbors(i, dr) returns exactly the (j, T) at a
\* distance of at most d_min(i) + dr, whatever the order of the scan
C24_NearestIsExact ==
    Answered("nearest") =>
        Pairs(nblist.entries)
            = {p \in Images3(nblist.i) :
                  ~SumBelow(DMin2(nblist.i), nblist.dr,
                            Dist2(nblist.nl, nblist.i, p.j, p.T))}

\* the range the call uses: r, if given and within the range of the list
UsedRange == IF nblist.r # NoRange /\ nblist.r <= nblist.nl.range
             THEN nblist.r ELSE nblist.nl.range

\* C25: get_neighbors_and_distances(i) returns every (j, T) at a distance of
\* at most r, for every shape of the cell
C25_RangeIsComplete ==
    Answered("range") =>
        \A p \in Images3(nblist.i) :
            Dist2(nblist.nl, nblist.i, p.j, p.T) <= UsedRange * UsedRange
                => p \in Pairs(nblist.entries)

\* The constant observable: Pn[i] = 1 for every i.
Ones == [n \in 1..run.nsites |-> 1]

Convolved == run.call = "convolution"

\* C26 as stated: the convolution maps the constant sequence 1 to Pp(p) = 1
\* for every p of plist, within 1e-10 (run.Pp is Pp times PGrid^nsites).
C26_ConstantOneMapsToOne ==
    Convolved /\ run.Pn = Ones
        => \A i \in 1..Len(run.Pp) :
              LET den == Power(PGrid, run.nsites)
              IN  /\ run.Pp[i] - den <= (den \div 100000) \div 100000
                  /\ den - run.Pp[i] <= (den \div 100000) \div 100000

\* C26 amended: the sum starts at n = 1, so the constant sequence 1 is
\* mapped to Pp(p) = 1 - (1-p)^N for every p of plist.
C26_ConstantOne ==
    Convolved /\ run.Pn = Ones
        => \A i \in 1..Len(run.Pp) :
              run.Pp[i] = Power(PGrid, run.nsites)
                              - Power(PGrid - run.plist[i], run.nsites)

C26_Witness ==
    Convolved /\ run.Pn = Ones /\ run.nsites = MaxN /\ Len(run.Pp) = PGrid - 1

\* the sampler is inside the method `call'
Sampling(call) == run # NoRun /\ run.call = call

(* C27: in percolation_point a pass of the site loop that leaves the       *)
(* largest cluster wrapping along all three axes ends the trial; a pass    *)
(* that occupies the last vacant site without that ends the run (exit,     *)
(* nothing returned, no further step); any other pass stays in the trial.  *)
(* Once the trials are through (each ended by the break), the six sums are *)
(* returned.                                                               *)
C27_ExhaustedTrialIsTerminal ==
    [][Sampling("percolation_point") =>
         /\ run.at = "site" /\ run'.at # "raised" =>
              LET all  == \A d \in 1..3 : is_wrapping'[largest' + 1][d] > 0
                  full == Len(vacant') = 0
              IN  /\ all => run'.at = "trial" /\ run'.i = run.i + 1
                  /\ ~all /\ full => run'.at = "exit" /\ run'.result = NoResult
                  /\ ~all /\ ~full => run'.at = "site" /\ run'.i = run.i
         /\ run.at = "trial" /\ run.i >= run.samples =>
              run'.at = "returned" /\ Len(run'.result) = 6
         /\ run'.at = "returned" => run.at = "trial" /\ run.i >= run.samples
         /\ run.at # "exit"]_vars

C27_Witness ==
    /\ Sampling("percolation_point") /\ run.at = "exit"
    /\ Len(vacant) = 0 /\ WrappingAny(is_wrapping[largest + 1])

\* the call of run from its entry to its end when every draw of
\* random_integers is 0 (the vacant sites are taken in index order)
RECURSIVE RunToEnd(_)
RunToEnd(x0) ==
    LET Pass(x) ==
          IF x.run.at = "trial" THEN RunToEnd(TrialStep(x.run, x.st))
          ELSE IF x.run.at = "site"
          THEN RunToEnd(SiteStep(x.run, x.st, 0, "SystemExit"))
          ELSE x
    IN  Bind(x0, Pass)

IndexOrderRun ==
    RunToEnd([run |-> IF run.call = "calc_p_infinity"
                      THEN CalcPInfinityEntry(run.samples, run.plist)
                      ELSE IF run.call = "calc_p_wrapping"
                      THEN CalcPWrappingEntry(run.samples, run.plist)
                      ELSE PercolationPointEntry(run.samples),
              st  |-> ResetState]).run

(* C28: the value a sampler method returns is the same in every run on the *)
(* same lattice with the same sample count (no argument or attribute holds *)
(* a seed, so these are the runs with the same root seed): here, the same  *)
(* as in the run whose draws are all 0.                                    *)
C28_ResultsAreReproducible ==
    run # NoRun /\ run.at = "returned" =>
        /\ IndexOrderRun.at = "returned"
        /\ run.result = IndexOrderRun.result

(* C29: a sampler call with samples <= 0 is rejected at its entry, and not *)
(* by a division by zero.                                                  *)
C29_NonPositiveSamplesRejected ==
    run # NoRun /\ run.samples <= 0 =>
        run.at = "raised" /\ run.err # "ZeroDivisionError"

(* C30: whenever two or more live clusters share the maximum size, largest *)
(* is the one of them with the lowest cluster id.                          *)
C30_TieGoesToLowestId ==
    LET top == {c \in Live : \A d \in Live : size[c + 1] >= size[d + 1]}
    IN  Cardinality(top) >= 2 => \A c \in top : largest <= c

-----------------------------------------------------------------------------
\* the engine after add_percolating_site selected the vacant site a of st
AddVacant(st, a) == AddSite(st, Omitted, Index(st.vacant, a))

\* id c is not a live cluster of st: popped from the table or tombstoned
RetiredIn(st, c) == c >= Len(st.size) \/ st.size[c + 1] = 0

(* C31: between two resets a retired cluster id is never assigned again:   *)
(* when adding a vacant site a creates the id c and retires it in the same *)
(* call (a joined a neighbor's cluster), no site b added next gets c as    *)
(* its cluster id.                                                         *)
C31_RetiredIdsAreNotReused ==
    \A a \in Range(vacant) :
       LET c    == Len(first)
           Next1(st1) ==
             st1.err = "ok" /\ RetiredIn(st1, c)
                => \A b \in Range(st1.vacant) :
                      LET Next2(st2) == st2.err = "ok" => st2.cluster[b] # c
                      IN  Bind(AddVacant(st1, b), Next2)
       IN  Bind(AddVacant(St, a), Next1)

(* C32: after any add_percolating_site, for every site i and every slot k  *)
(* of neighbors[i] the entry bonds[i][k] exists, and it is true iff both   *)
(* i and neighbors[i][k] are occupied; no call ended with an IndexError.   *)
C32_BondsArePerSlot ==
    occupied # <<>> =>
      /\ err # "IndexError"
      /\ \A i \in Sites : \A k \in 1..Len(L.nn[i]) :
            /\ k <= Len(bonds[i])
            /\ bonds[i][k] <=> (cluster[i] >= 0 /\ cluster[L.nn[i][k]] >= 0)

-----------------------------------------------------------------------------
\* Qn with 1 (one unit of weight) added to the entries whose index in the
\* code's array (sequence index minus one) is in S
Plus(Qn, S) == [k \in 1..Len(Qn) |-> IF (k - 1) \in S THEN Qn[k] + 1 ELSE Qn[k]]

\* A step of calc_p_wrapping: the pass of the site loop that is the first
\* of its trial after which the largest cluster wraps, with nstar sites
\* occupied, adds one unit to Pn[nstar-1] and to Pnc[n] for every
\* n >= lowest(nstar), and ends the trial; every other step changes neither
\* Pn nor Pnc.  No pass follows one that found the wrapping.
WrappingTrial(lowest(_)) ==
    Sampling("calc_p_wrapping") =>
      /\ run.at = "site" /\ run'.at # "raised" =>
           /\ occupied # <<>> => ~WrappingAny(is_wrapping[largest + 1])
           /\ IF Sum3(is_wrapping'[largest' + 1]) > 0
              THEN /\ run'.Pn = Plus(run.Pn, {Len(occupied') - 1})
                   /\ run'.Pnc = Plus(run.Pnc,
                                      lowest(Len(occupied')) .. (L.nsites - 1))
                   /\ run'.at = "trial"
              ELSE run'.Pn = run.Pn /\ run'.Pnc = run.Pnc
      /\ run.at # "site" => run'.Pn = run.Pn /\ run'.Pnc = run.Pnc

FromNstar(nstar) == nstar

FromIndexOfNstar(nstar) == nstar - 1

\* C33 as stated: with n* the smallest occupation count of the trial at
\* which sum(wrapping[largest]) > 0, the trial adds w*N to Pn[n*-1] once and
\* w to Pnc[n] for all n >= n*, and changes nothing else.
C33_WrappingRecordedAsStated == [][WrappingTrial(FromNstar)]_vars

\* C33 amended: the trial adds w*N to Pn[n*-1] once and w to Pnc[n] for all
\* n >= n*-1 (the entry of n* itself included), and changes nothing else.
C33_WrappingRecorded == [][WrappingTrial(FromIndexOfNstar)]_vars

\* a second trial found the wrapping at a count above 1
C33_Witness ==
    /\ Sampling("calc_p_wrapping") /\ run.at = "trial" /\ run.i = 2
    /\ \E k \in 2..Len(run.Pn) : run.Pn[k] = 2 /\ run.Pnc[k] = 2

-----------------------------------------------------------------------------
\* one step of percolation_point: a trial starts with no criterion recorded;
\* a pass over a site adds to the sum of a criterion nothing or the
\* occupation count, to `any' and `two' only when the trial has not yet
\* recorded them, to `two' only when `any' is recorded by then and to `all'
\* only when `two' is recorded by then, and `all' ends the trial
CriteriaPass ==
    Sampling("percolation_point") =>
      /\ run.at = "trial" /\ run'.at = "site" =>
            ~run'.done_any /\ ~run'.done_two
      /\ run.at = "site" /\ run'.at # "raised" =>
            LET d(k) == run'.pc[k] - run.pc[k]
            IN  /\ \A k \in 1..3 : d(k) \in {0, Len(occupied')}
                /\ d(1) # 0 => ~run.done_any
                /\ d(2) # 0 => ~run.done_two
                /\ run'.done_any <=> (run.done_any \/ d(1) # 0)
                /\ run'.done_two <=> (run.done_two \/ d(2) # 0)
                /\ d(2) # 0 => run'.done_any
                /\ d(3) # 0 => run'.done_two /\ run'.at = "trial"
      /\ run.at \notin {"trial", "site"} => run'.pc = run.pc

(* C34: in every trial of percolation_point each of the criteria any, two, *)
(* all adds to its sum in at most one pass, what it adds is the occupation *)
(* count of that pass, and the counts satisfy n_any <= n_two <= n_all (a   *)
(* later criterion is recorded only when the earlier ones are).            *)
C34_CriteriaOnceAndOrdered == [][CriteriaPass]_vars

\* a trial recorded the first criterion at a lower count than the third
C34_Witness ==
    /\ Sampling("percolation_point") /\ run.at = "trial" /\ run.i = 1
    /\ run.pc[1] > 0 /\ run.pc[1] < run.pc[3]

-----------------------------------------------------------------------------
\* occupied and vacant hold every site exactly once between them
SitesPartitioned(occ, vac) ==
    /\ Len(occ) + Len(vac) = L.nsites
    /\ Range(occ) \cup Range(vac) = Sites

\* one call add_percolating_site() without argument while a site is vacant
\* moves exactly one vacant site to the end of occupied, also when the call
\* ends with an exception of the merge
OneMoreSite ==
    /\ SitesPartitioned(occupied, vacant)
    /\ SitesPartitioned(occupied', vacant')
    /\ lastarg' = Omitted /\ vacant # <<>> =>
          \E s \in Range(vacant) :
            /\ occupied' = Append(occupied, s)
            /\ vacant' = SelectSeq(vacant, LAMBDA v : v # s)
    /\ lastarg' = ResetCall => occupied' = <<>>

(* C35: occupied and vacant are always disjoint and together hold every    *)
(* site exactly once; every call add_percolating_site() without argument   *)
(* that finds a vacant site occupies exactly one more site, so k calls     *)
(* after a reset occupy k distinct sites and N calls occupy all of them.   *)
C35_EachCallOccupiesOneSite == [][OneMoreSite]_vars

\* a sweep has occupied every site
C35_Witness ==
    /\ lastarg = Omitted /\ err = "ok" /\ vacant = <<>>
    /\ Len(occupied) = L.nsites /\ L.nsites >= 3

-----------------------------------------------------------------------------
\* a call of add_percolating_site, with or without argument, that finds no
\* vacant site warns and leaves every attribute of the engine as it was
FullEngineUntouched ==
    vacant = <<>> /\ lastarg' # ResetCall =>
      err' = "warning" /\ UNCHANGED Engine

(* C36: add_percolating_site called when no vacant site remains returns    *)
(* without changing the engine: occupied, vacant, the cluster tables, the  *)
(* bonds and the aggregates are what they were.                            *)
C36_FullEngineIsLeftAlone == [][FullEngineUntouched]_vars

\* the call came on a fully occupied lattice with a live largest cluster
C36_Witness ==
    /\ vacant = <<>> /\ err = "warning" /\ lastarg # ResetCall
    /\ Len(occupied) = L.nsites /\ largest >= 0

-----------------------------------------------------------------------------
\* the sequence s holds no value twice
NoRepeats(s) == \A a, b \in 1..Len(s) : a # b => s[a] # s[b]

\* the coordinates that were put into box bid
PutIntoBox(nl, bid) == {j \in 0..(nl.ncoo - 1) : nl.box[j] = bid}

(* C37: for every site i and every box partition the candidate list of     *)
(* get_possible_neighbors holds each other site at most once and not i, a  *)
(* box yields the coordinates that were put into it (an empty box none),   *)
(* and no pair (j, T) appears twice in the list returned for i.            *)
C37_CandidatesAreDistinct ==
    Answered("nearest") \/ Answered("range") =>
      /\ NoRepeats(GetPossibleNeighbors(nblist.nl, nblist.i))
      /\ nblist.i \notin Range(GetPossibleNeighbors(nblist.nl, nblist.i))
      /\ \A bid \in DOMAIN nblist.nl.first :
            Range(BoxContents(nblist.nl, bid)) = PutIntoBox(nblist.nl, bid)
      /\ \A a, b \in 1..Len(nblist.entries) :
            a # b => \/ nblist.entries[a].j # nblist.entries[b].j
                     \/ nblist.entries[a].T # nblist.entries[b].T


(* C38: for every site i and every box partition get_nearest_neighbors     *)
(* never reports i itself with the translation (0,0,0), at distance 0: a   *)
(* site is its own neighbor only through a nonzero translation.  The same  *)
(* for the lists that _build_neighbor_list collects from it.               *)
C38_NoSiteIsItsOwnNeighbor ==
    /\ Answered("nearest") =>
          \A k \in 1..Len(nblist.entries) :
             nblist.entries[k].j = nblist.i => nblist.entries[k].T # Zero3
    /\ Answered("build") =>
          \A i \in NblSites : \A k \in 1..Len(nblist.neighbors[i]) :
             nblist.neighbors[i][k] = i => nblist.T_vectors[i][k] # Zero3

====
